---- MODULE Spec2Model ----
(***************************************************************************)
(* Kernel environment lifecycle engine of jupyter-kernel-manager:          *)
(* venvManager (setupKernel / setupAllKernels), hashTracker,               *)
(* kernelConfig.getKernelInfoList and kernelRegistrar, modelled over an    *)
(* abstract filesystem.  The asynchronous setupKernel is split at its      *)
(* suspension points (the awaited external processes and file reads), so   *)
(* that external edits of the dependency specifier and cancellation can    *)
(* interleave with it.                                                     *)
(***************************************************************************)
EXTENDS Integers, Sequences, FiniteSets, TLC

\* ------------------------------------------------------------------------
\* Bounds of the model
\* ------------------------------------------------------------------------
MaxEdits == 1

\* ------------------------------------------------------------------------
\* Values
\* ------------------------------------------------------------------------
NoFile == "<absent>"
NoVariant == "<undefined>"
Undefined == "<undefined>"
Null == "<null>"

\* kernels.json of the modelled workspace, in Object.entries order
KernelOrder == <<"common", "pytorch_study">>

KernelNames == {KernelOrder[i] : i \in 1..Len(KernelOrder)}

KernelsConfig ==
  [k \in KernelNames |->
     IF k = "common"
     THEN [display_name |-> "Python (Common)",
           requirements_file |-> Undefined,
           env |-> << >>,
           variants |-> << >>]
     ELSE [display_name |-> "PyTorch Study",
           requirements_file |-> Undefined,
           env |-> [x \in {"CUDA_VISIBLE_DEVICES"} |-> "0"],
           variants |-> [v \in {"cpu", "gpu"} |->
                           IF v = "gpu"
                           THEN [display_name |-> "PyTorch Study (GPU)",
                                 requirements_file |-> "requirements-gpu.txt"]
                           ELSE [display_name |-> Undefined,
                                 requirements_file |-> "requirements-cpu.txt"]]]]

\* variant arguments a caller passes: none, "gpu" (defined on pytorch_study
\* only) and "tpu" (defined nowhere)
VariantArgs == {NoVariant, "gpu", "tpu"}

\* the kernel the single-kernel commands are run on
SetupTargets == {"pytorch_study"}

\* contents a dependency specifier file can have
Contents == {"numpy\n", "torch\n"}

\* computeFileHash: md5 hex digest of the file content
MD5 ==
  [c \in Contents |->
     IF c = "numpy\n" THEN "93d7964ec38e9a2894a602b6c93f8cb7"
                      ELSE "38dcc31db03b188f932c089b19f1dc54"]

Whitespace == {" ", "\n"}

\* ------------------------------------------------------------------------
\* State
\* ------------------------------------------------------------------------
VARIABLES
  workspaceOpen,  \* vscode.workspace.workspaceFolders?.[0] is defined
  platform,       \* process.platform
  kernelDir,      \* [kernel -> BOOLEAN]: <kernelsDir>/<kernel> exists
  venv,           \* [kernel -> "absent" | "broken" | "valid"]: the .venv tree
  marker,         \* [kernel -> [exists, text]]: .venv/.requirements_hash
  req,            \* [<<kernel, file>> -> content | NoFile]: specifier files
  edits,          \* number of external edits of specifier files so far
  pc,             \* position of the running setupKernel / setupAllKernels
  call,           \* arguments and locals of the running setupKernel
  token,          \* token.isCancellationRequested of the running command
  batch,          \* locals of the running setupAllKernels
  batchOutcome,   \* how the last setupAllKernels completed
  last,           \* the last completed setupKernel invocation
  infoList,       \* result of the last getKernelInfoList
  infoFresh,      \* no filesystem change since infoList was computed
  fresh,          \* the last checkFreshness call: its inputs and its result
  shared,         \* [spec name -> [dir, json]]: <jupyter data>/kernels/<spec>
  local,          \* [spec name -> [dir, json]]: <workspace>/.venv/share/jupyter/kernels/<spec>
  regLast,        \* the last registerKernel / unregisterKernel invocation
  regBatch,       \* locals of the running registerAllKernels
  regOutcome,     \* how the last registerAllKernels completed
  resolveCall,    \* the last resolveKernelForNotebook call: inputs and result
  notebooks,      \* [notebook path -> file]: the .ipynb files of the workspace
  nbLast,         \* the last updateSingleNotebook call
  nbBatch,        \* locals of the running updateNotebookKernels
  nbOutcome,      \* how the last updateNotebookKernels completed
  pypiMirror,     \* the jupyterKernelManager.pypiMirror setting
  cachedMirror,   \* mirrorDetector's module variable cachedMirror
  mirrorCall,     \* [caller -> the getPreferredMirror call it has in flight]
  mirrorLast,     \* the last completed getPreferredMirror / getMirrorArgs call
  mirrorResolved, \* what the first resolved call returned since the cache was cleared
  configFile,     \* the kernels.json of the workspace
  validateCall,   \* the last validateConfig call: its input and its result
  loadLast,       \* the last loadKernelsConfig call
  reqPathCall,    \* a getRequirementsPath call: its arguments and its result
  hashCall,       \* a computeFileHash call: its file and its result
  activeNotebook, \* vscode.window.activeNotebookEditor
  sbItem,         \* the status bar item: visible or hidden, and its text
  sbUpdates,      \* [id -> the KernelStatusBar.update() call in flight]
  cmd,            \* the running / last Setup All Kernels command
  tree            \* the tree data provider, its refresh() calls and events

fsVars == <<kernelDir, venv, marker, req, edits>>
setupVars == <<pc, call, token, batch, batchOutcome, last>>
infoVars == <<infoList, infoFresh>>
regVars == <<shared, local, regLast, regBatch, regOutcome>>
\* what the provisioning actions never touch
frameVars == <<workspaceOpen, platform, fresh>>
nbVars == <<resolveCall, notebooks, nbLast, nbBatch, nbOutcome>>
mirrorVars == <<pypiMirror, cachedMirror, mirrorCall, mirrorLast, mirrorResolved>>
cfgVars == <<configFile, validateCall, loadLast>>
pathVars == <<reqPathCall, hashCall>>
sbVars == <<activeNotebook, sbItem, sbUpdates>>
viewVars == <<cmd, tree>>
uiVars == <<cfgVars, pathVars, sbVars, viewVars>>
\* the notebook updater, the mirror detector, the config loader and the
\* status bar
toolVars == <<nbVars, mirrorVars, uiVars>>
vars == <<workspaceOpen, platform, kernelDir, venv, marker, req, edits, pc, call,
          token, batch, batchOutcome, last, infoList, infoFresh, fresh, shared, local,
          regLast, regBatch, regOutcome, resolveCall, notebooks, nbLast, nbBatch,
          nbOutcome, pypiMirror, cachedMirror, mirrorCall, mirrorLast, mirrorResolved,
          configFile, validateCall, loadLast, reqPathCall, hashCall, activeNotebook,
          sbItem, sbUpdates, cmd, tree>>

\* ------------------------------------------------------------------------
\* Paths (venvManager path helpers)
\* ------------------------------------------------------------------------
DefaultRequirements == "requirements.txt"

\* property names every object inherits from Object.prototype
ObjectPrototypeNames == {"constructor", "toString"}

\* getRequirementsPath, lines 38-54: the variant's file when
\* definition.variants?.[variant] is truthy.  For a name the variants object
\* inherits the lookup yields a function, whose requirements_file is
\* undefined, and path.join throws (the file "<throws>").  A definition
\* without variants and one with an empty variants object are both held as
\* the empty table.
getRequirementsPath(kernelName, definition, variant) ==
  IF variant \notin {NoVariant, ""} /\ variant \in DOMAIN definition.variants
  THEN <<kernelName, definition.variants[variant].requirements_file>>
  ELSE IF /\ variant \in ObjectPrototypeNames
          /\ DOMAIN definition.variants # {}
  THEN <<kernelName, "<throws>">>
  ELSE <<kernelName,
         IF definition.requirements_file = Undefined
         THEN DefaultRequirements
         ELSE definition.requirements_file>>

ReqPaths ==
  {getRequirementsPath(k, KernelsConfig[k], v) : k \in KernelNames, v \in VariantArgs}

NoMarker == [exists |-> FALSE, text |-> << >>]

\* ------------------------------------------------------------------------
\* hashTracker
\* ------------------------------------------------------------------------
RECURSIVE TrimStart(_)
TrimStart(s) ==
  IF s # << >> /\ Head(s) \in Whitespace THEN TrimStart(Tail(s)) ELSE s

RECURSIVE TrimEnd(_)
TrimEnd(s) ==
  IF s # << >> /\ s[Len(s)] \in Whitespace
  THEN TrimEnd(SubSeq(s, 1, Len(s) - 1))
  ELSE s

\* String.prototype.trim on a text held as a sequence of tokens; a text that
\* is one token after trimming is that token
Trim(s) ==
  LET t == TrimStart(TrimEnd(s))
  IN IF t = << >> THEN "" ELSE IF Len(t) = 1 THEN t[1] ELSE "<text>"

\* computeFileHash: "<throws>" stands for the rejected promise
Throws == "<throws>"

\* variant: the digest does not depend on the content
computeFileHashConstant(content) ==
  IF content = NoFile THEN Throws ELSE MD5["numpy\n"]

computeFileHash(content) ==
  IF content = NoFile THEN Throws ELSE MD5[content]

\* variant: the marker text is compared as it is stored
readStoredHashUntrimmed(m) ==
  IF m.exists
  THEN IF Len(m.text) = 1 THEN m.text[1] ELSE "<text>"
  ELSE Null

readStoredHash(m) ==
  IF m.exists THEN Trim(m.text) ELSE Null

\* variant: a missing specifier counts as stale
checkFreshnessNoSpecStale(m, content) ==
  LET currentHash == computeFileHash(content)
  IN IF currentHash = Throws
     THEN [upToDate |-> FALSE, currentHash |-> "", storedHash |-> Null]
     ELSE LET storedHash == readStoredHash(m)
          IN [upToDate |-> storedHash # Null /\ storedHash = currentHash,
              currentHash |-> currentHash,
              storedHash |-> storedHash]

checkFreshness(m, content) ==
  LET currentHash == computeFileHash(content)
  IN IF currentHash = Throws
     THEN [upToDate |-> TRUE, currentHash |-> "", storedHash |-> Null]
     ELSE LET storedHash == readStoredHash(m)
          IN [upToDate |-> storedHash # Null /\ storedHash = currentHash,
              currentHash |-> currentHash,
              storedHash |-> storedHash]

\* variant: the venv directory is probed instead of the interpreter
isVenvDirPresent(v) == v # "absent"

\* platform.isVenvValid: the interpreter inside the venv is accessible
isVenvValid(v) == v = "valid"

isWindows == platform = "win32"

\* ------------------------------------------------------------------------
\* kernelConfig.getKernelInfoList
\* ------------------------------------------------------------------------
\* variant: a tree without interpreter is reported like a missing tree
KernelStatusBrokenAsNotSetUp(name) ==
  IF ~workspaceOpen THEN "notSetUp"
  ELSE LET definition == KernelsConfig[name]
           reqFileName == IF definition.requirements_file = Undefined
                          THEN DefaultRequirements
                          ELSE definition.requirements_file
           reqPath == <<name, reqFileName>>
       IN IF isVenvValid(venv[name])
          THEN IF checkFreshness(marker[name], req[reqPath]).upToDate
               THEN "ready" ELSE "needsUpdate"
          ELSE "notSetUp"

\* the status of one kernel; the specifier is always the base file, whatever
\* variant was set up
KernelStatus(name) ==
  IF ~workspaceOpen THEN "notSetUp"
  ELSE LET definition == KernelsConfig[name]
           reqFileName == IF definition.requirements_file = Undefined
                          THEN DefaultRequirements
                          ELSE definition.requirements_file
           reqPath == <<name, reqFileName>>
       IN IF isVenvValid(venv[name])
          THEN IF checkFreshness(marker[name], req[reqPath]).upToDate
               THEN "ready" ELSE "needsUpdate"
          ELSE IF venv[name] # "absent" THEN "error" ELSE "notSetUp"

\* lines 220-225: the KernelInfo pushed for a kernel; isRegistered is an
\* optional boolean, held as {} when it is not set
KernelInfo(name, status) == [name |-> name, status |-> status, isRegistered |-> {}]

\* treeView.ts line 110: the registration label of a tree item
regLabel(kernelInfo) ==
  IF TRUE \in kernelInfo.isRegistered THEN "Registered" ELSE "Not Registered"

GetKernelInfoList ==
  /\ infoList' = [i \in 1..Len(KernelOrder) |->
                    KernelInfo(KernelOrder[i], KernelStatus(KernelOrder[i]))]
  /\ infoFresh' = TRUE
  /\ UNCHANGED <<fsVars, setupVars, regVars, frameVars, toolVars>>

NoFresh == [marker |-> NoMarker, content |-> NoFile, called |-> FALSE,
            result |-> [upToDate |-> FALSE, currentHash |-> "", storedHash |-> Null]]

\* checkFreshness(venvDir, requirementsPath) called on the files of a kernel
CheckFreshness(kernelName, variant) ==
  LET path == getRequirementsPath(kernelName, KernelsConfig[kernelName], variant)
  IN /\ workspaceOpen
     /\ fresh' = [marker |-> marker[kernelName], content |-> req[path],
                  called |-> TRUE,
                  result |-> checkFreshness(marker[kernelName], req[path])]
     /\ UNCHANGED <<workspaceOpen, platform, fsVars, setupVars, infoVars, regVars, toolVars>>

\* ------------------------------------------------------------------------
\* venvManager.setupKernel
\* ------------------------------------------------------------------------
RunOutcomes == {"exit0", "exitNonZero", "spawnError"}

\* arguments and locals of a setupKernel invocation, with what is recorded
\* about it: the tree and marker it found, the processes it launched, the
\* content its hash snapshot read, whether its specifier was edited while it
\* ran, and how it relates to the invocation before it
NoCall ==
  [kernelName |-> "", force |-> FALSE, variant |-> NoVariant,
   requirementsPath |-> <<"", "">>, requirementsHash |-> "",
   launched |-> << >>, venvBefore |-> "absent", markerBefore |-> NoMarker,
   snapContent |-> NoFile, wroteMarker |-> FALSE, removed |-> FALSE,
   editedDuring |-> FALSE, upgradeExit |-> "none", installExit |-> "none",
   prevSame |-> FALSE, prevClean |-> FALSE, editedSincePrev |-> FALSE,
   prevOther |-> FALSE, prevChain |-> FALSE,
   prevOtherContent |-> NoFile, beginContent |-> NoFile]

NoLast ==
  [kernelName |-> "", force |-> FALSE, variant |-> NoVariant,
   requirementsPath |-> <<"", "">>, kind |-> "none", success |-> FALSE,
   message |-> "", launched |-> << >>,
   venvBefore |-> "absent", markerBefore |-> NoMarker,
   venvAfter |-> "absent", markerAfter |-> NoMarker,
   snapContent |-> NoFile, wroteMarker |-> FALSE, removed |-> FALSE,
   editedDuring |-> FALSE, editedAfter |-> FALSE,
   upgradeExit |-> "none", installExit |-> "none",
   prevSame |-> FALSE, prevClean |-> FALSE, editedSincePrev |-> FALSE,
   prevOther |-> FALSE, prevChain |-> FALSE,
   prevOtherContent |-> NoFile, beginContent |-> NoFile]

NoBatch == [active |-> FALSE, command |-> FALSE, force |-> FALSE, idx |-> 0,
            results |-> << >>, attempted |-> << >>]

NoOutcome == [kind |-> "none", results |-> << >>, attempted |-> << >>,
              cancelled |-> FALSE]

SetupResult(success, kernelName, message) ==
  [success |-> success, kernelName |-> kernelName, message |-> message]

\* the record kept of a completed setupKernel invocation
Completed(c, kind, success, message, venvAfter, markerAfter) ==
  [kernelName |-> c.kernelName, force |-> c.force, variant |-> c.variant,
   requirementsPath |-> c.requirementsPath, kind |-> kind,
   success |-> success, message |-> message, launched |-> c.launched,
   venvBefore |-> c.venvBefore, markerBefore |-> c.markerBefore,
   venvAfter |-> venvAfter, markerAfter |-> markerAfter,
   snapContent |-> c.snapContent, wroteMarker |-> c.wroteMarker,
   removed |-> c.removed, editedDuring |-> c.editedDuring,
   editedAfter |-> FALSE,
   upgradeExit |-> c.upgradeExit, installExit |-> c.installExit,
   prevSame |-> c.prevSame,
   prevClean |-> c.prevClean, editedSincePrev |-> c.editedSincePrev,
   prevOther |-> c.prevOther, prevChain |-> c.prevChain,
   prevOtherContent |-> c.prevOtherContent, beginContent |-> c.beginContent]

\* setupKernel settles: `return { success, kernelName, message }` ("result")
\* or a rejected promise ("raised").  Inside setupAllKernels or the Setup
\* All Kernels command (b.active) the result is pushed and the loop goes on;
\* a rejection rejects the caller too.
Settle(c, b, kind, success, message, venvAfter, markerAfter) ==
  /\ last' = Completed(c, kind, success, message, venvAfter, markerAfter)
  /\ call' = NoCall
  /\ IF b.active
     THEN IF kind = "raised"
          THEN /\ pc' = "idle"
               /\ batch' = NoBatch
               /\ batchOutcome' = [kind |-> "raised", results |-> b.results,
                                   attempted |-> b.attempted,
                                   cancelled |-> token]
          ELSE /\ pc' = IF b.command THEN "cmdLoop" ELSE "batchLoop"
               /\ batch' = [b EXCEPT
                              !.results = Append(@, SetupResult(success, c.kernelName, message)),
                              !.idx = @ + 1]
               /\ UNCHANGED batchOutcome
     ELSE /\ pc' = "idle"
          /\ UNCHANGED <<batch, batchOutcome>>

\* lines 171-227: resolve the paths, verify the kernel directory, take the
\* freshness short cut, decide recreation, remove the old tree and launch
\* `python -m venv`
Begin(kernelName, force, variant, b) ==
  LET definition == KernelsConfig[kernelName]
      requirementsPath == getRequirementsPath(kernelName, definition, variant)
      \* history: the call before this one was a successful setup of another
      \* defined variant of the same kernel
      prevOther == /\ last.kind = "result"
                   /\ last.success
                   /\ last.kernelName = kernelName
                   /\ last.variant # variant
                   /\ {variant, last.variant} \subseteq DOMAIN definition.variants
      c == [NoCall EXCEPT !.kernelName = kernelName, !.force = force,
                          !.variant = variant,
                          !.requirementsPath = requirementsPath,
                          !.venvBefore = venv[kernelName],
                          !.markerBefore = marker[kernelName],
                          !.prevSame = /\ last.kind = "result"
                                       /\ last.success
                                       /\ last.kernelName = kernelName
                                       /\ last.force = force
                                       /\ last.variant = variant,
                          !.prevClean = ~last.editedDuring,
                          !.editedSincePrev = last.editedAfter,
                          !.prevOther = prevOther,
                          !.prevChain = prevOther /\ last.prevOther,
                          !.prevOtherContent =
                             IF prevOther THEN req[last.requirementsPath] ELSE NoFile,
                          !.beginContent =
                             IF prevOther THEN req[requirementsPath] ELSE NoFile]
      venvExists == isVenvValid(venv[kernelName])
      needsRecreation == ~venvExists \/ force
  IN IF ~workspaceOpen
     THEN /\ Settle(c, b, "result", FALSE, "No workspace folder open",
                    venv[kernelName], marker[kernelName])
          /\ UNCHANGED <<venv, marker>>
     ELSE IF ~kernelDir[kernelName]
     THEN /\ Settle(c, b, "result", FALSE, "Kernel directory not found",
                    venv[kernelName], marker[kernelName])
          /\ UNCHANGED <<venv, marker>>
     ELSE IF ~force /\ venvExists
             /\ checkFreshness(marker[kernelName], req[requirementsPath]).upToDate
     THEN /\ Settle(c, b, "result", TRUE, "Already up to date",
                    venv[kernelName], marker[kernelName])
          /\ UNCHANGED <<venv, marker>>
     ELSE IF needsRecreation
     THEN \E rmOk \in BOOLEAN :
            LET removed == venv[kernelName] # "absent" /\ rmOk
            IN /\ venv[kernelName] = "absent" => rmOk
               /\ venv' = IF removed THEN [venv EXCEPT ![kernelName] = "absent"] ELSE venv
               /\ marker' = IF removed THEN [marker EXCEPT ![kernelName] = NoMarker] ELSE marker
               /\ call' = [c EXCEPT !.removed = removed, !.launched = <<"venv">>]
               /\ pc' = "createVenv"
               /\ batch' = b
               /\ UNCHANGED <<batchOutcome, last>>
     ELSE /\ call' = c
          /\ pc' = "snapshot"
          /\ batch' = b
          /\ UNCHANGED <<venv, marker, batchOutcome, last>>

\* a command invokes setupKernel with a fresh cancellation token
SetupKernel(kernelName, force, variant) ==
  /\ pc = "idle"
  /\ token' = FALSE
  /\ Begin(kernelName, force, variant, batch)
  /\ infoFresh' = (infoFresh /\ venv' = venv /\ marker' = marker)
  /\ UNCHANGED <<kernelDir, req, edits, infoList, regVars, frameVars, toolVars>>

\* createVenv, lines 68-82: the `python -m venv` process ends
CreateVenvDone ==
  /\ pc = "createVenv"
  /\ \E outcome \in RunOutcomes :
       LET k == call.kernelName
       IN CASE outcome = "exit0" ->
                 /\ venv' = [venv EXCEPT ![k] = "valid"]
                 /\ pc' = "snapshot"
                 /\ UNCHANGED <<call, batch, batchOutcome, last>>
            [] outcome = "exitNonZero" ->
                 \E partial \in BOOLEAN :
                   /\ partial => venv[k] = "absent"
                   /\ venv' = IF partial THEN [venv EXCEPT ![k] = "broken"] ELSE venv
                   /\ Settle(call, batch, "result", FALSE,
                             "Failed to create virtual environment",
                             venv'[k], marker[k])
            [] outcome = "spawnError" ->
                 /\ UNCHANGED venv
                 /\ Settle(call, batch, "raised", FALSE, "spawn error",
                           venv[k], marker[k])
  /\ infoFresh' = (infoFresh /\ venv' = venv)
  /\ UNCHANGED <<kernelDir, marker, req, edits, token, infoList, regVars, frameVars, toolVars>>

\* variant: the marker is written as soon as the hash is taken
SnapshotHashWritesMarker ==
  /\ pc = "snapshot"
  /\ LET h == computeFileHash(req[call.requirementsPath])
     IN /\ call' = [call EXCEPT !.requirementsHash = IF h = Throws THEN "" ELSE h,
                                !.snapContent = req[call.requirementsPath]]
        /\ marker' = IF h = Throws THEN marker
                     ELSE [marker EXCEPT ![call.kernelName] =
                             [exists |-> TRUE, text |-> <<h>>]]
  /\ pc' = "install"
  /\ infoFresh' = (infoFresh /\ marker' = marker)
  /\ UNCHANGED <<kernelDir, venv, req, edits, token, batch, batchOutcome, last,
                 infoList, regVars, frameVars, toolVars>>

\* lines 229-235: snapshot of the specifier's hash before installing
SnapshotHash ==
  /\ pc = "snapshot"
  /\ LET h == computeFileHash(req[call.requirementsPath])
     IN call' = [call EXCEPT !.requirementsHash = IF h = Throws THEN "" ELSE h,
                             !.snapContent = req[call.requirementsPath]]
  /\ pc' = "install"
  /\ UNCHANGED <<fsVars, token, batch, batchOutcome, last, infoVars, regVars, frameVars, toolVars>>

\* variant: the marker holds the hash of the specifier as it is after the
\* install
WriteMarkerHashedAfterInstall(c) ==
  LET k == c.kernelName
      h == computeFileHash(req[c.requirementsPath])
  IN IF h # Throws
     THEN /\ marker' = [marker EXCEPT ![k] = [exists |-> TRUE, text |-> <<h>>]]
          /\ Settle([c EXCEPT !.wroteMarker = TRUE], batch, "result",
                    TRUE, "Setup complete", venv[k], marker'[k])
     ELSE /\ UNCHANGED marker
          /\ Settle(c, batch, "result", TRUE, "Setup complete",
                    venv[k], marker[k])

\* lines 242-249: write the marker when a hash was taken, then return success
WriteMarkerAndReturn(c) ==
  LET k == c.kernelName
  IN IF c.requirementsHash # ""
     THEN \E writeOk \in BOOLEAN :
            IF writeOk
            THEN /\ marker' = [marker EXCEPT ![k] =
                                 [exists |-> TRUE, text |-> <<c.requirementsHash>>]]
                 /\ Settle([c EXCEPT !.wroteMarker = TRUE], batch, "result",
                           TRUE, "Setup complete", venv[k], marker'[k])
            ELSE /\ UNCHANGED marker
                 /\ Settle(c, batch, "raised", FALSE, "write error",
                           venv[k], marker[k])
     ELSE /\ UNCHANGED marker
          /\ Settle(c, batch, "result", TRUE, "Setup complete",
                    venv[k], marker[k])

\* variant: the pip self-upgrade is launched whether or not the specifier
\* exists
InstallRequirementsBeginNoSkip ==
  /\ pc = "install"
  /\ call' = [call EXCEPT !.launched = Append(@, "pipUpgrade")]
  /\ pc' = "pipUpgrade"
  /\ UNCHANGED <<marker, batch, batchOutcome, last>>
  /\ infoFresh' = (infoFresh /\ marker' = marker)
  /\ UNCHANGED <<kernelDir, venv, req, edits, token, infoList, regVars, frameVars, toolVars>>

\* installRequirements, lines 94-133: a missing specifier skips the install;
\* otherwise the pip self-upgrade is launched
InstallRequirementsBegin ==
  /\ pc = "install"
  /\ IF req[call.requirementsPath] = NoFile
     THEN WriteMarkerAndReturn(call)
     ELSE /\ call' = [call EXCEPT !.launched = Append(@, "pipUpgrade")]
          /\ pc' = "pipUpgrade"
          /\ UNCHANGED <<marker, batch, batchOutcome, last>>
  /\ infoFresh' = (infoFresh /\ marker' = marker)
  /\ UNCHANGED <<kernelDir, venv, req, edits, token, infoList, regVars, frameVars, toolVars>>

\* variant: a failed self-upgrade ends setupKernel with a failure
PipUpgradeDoneAborts ==
  /\ pc = "pipUpgrade"
  /\ \E outcome \in RunOutcomes :
       LET c == [call EXCEPT !.upgradeExit = outcome]
       IN CASE outcome = "spawnError" ->
                 Settle(c, batch, "raised", FALSE, "spawn error",
                        venv[call.kernelName], marker[call.kernelName])
            [] outcome = "exitNonZero" ->
                 Settle(c, batch, "result", FALSE, "Failed to install packages",
                        venv[call.kernelName], marker[call.kernelName])
            [] outcome = "exit0" ->
                 /\ call' = [c EXCEPT !.launched = Append(@, "pipInstall")]
                 /\ pc' = "pipInstall"
                 /\ UNCHANGED <<batch, batchOutcome, last>>
  /\ UNCHANGED <<fsVars, token, infoVars, regVars, frameVars, toolVars>>

\* lines 108-143: the self-upgrade ends; its exit code is only logged, then
\* `pip install -r` is launched
PipUpgradeDone ==
  /\ pc = "pipUpgrade"
  /\ \E outcome \in RunOutcomes :
       LET c == [call EXCEPT !.upgradeExit = outcome]
       IN IF outcome = "spawnError"
          THEN Settle(c, batch, "raised", FALSE, "spawn error",
                      venv[call.kernelName], marker[call.kernelName])
          ELSE /\ call' = [c EXCEPT !.launched = Append(@, "pipInstall")]
               /\ pc' = "pipInstall"
               /\ UNCHANGED <<batch, batchOutcome, last>>
  /\ UNCHANGED <<fsVars, token, infoVars, regVars, frameVars, toolVars>>

\* variant: a successful install returns success without writing the marker
PipInstallDoneNoMarker ==
  /\ pc = "pipInstall"
  /\ \E outcome \in RunOutcomes :
       LET c == [call EXCEPT !.installExit = outcome]
       IN /\ UNCHANGED marker
          /\ CASE outcome = "exit0" ->
                    Settle(c, batch, "result", TRUE, "Setup complete",
                           venv[call.kernelName], marker[call.kernelName])
               [] outcome = "exitNonZero" ->
                    Settle(c, batch, "result", FALSE, "Failed to install packages",
                           venv[call.kernelName], marker[call.kernelName])
               [] outcome = "spawnError" ->
                    Settle(c, batch, "raised", FALSE, "spawn error",
                           venv[call.kernelName], marker[call.kernelName])
  /\ infoFresh' = (infoFresh /\ marker' = marker)
  /\ UNCHANGED <<kernelDir, venv, req, edits, token, infoList, regVars, frameVars, toolVars>>

\* lines 145-151 and 238-249: the install ends
PipInstallDone ==
  /\ pc = "pipInstall"
  /\ \E outcome \in RunOutcomes :
       LET c == [call EXCEPT !.installExit = outcome]
       IN CASE outcome = "exit0" -> WriteMarkerAndReturn(c)
            [] outcome = "exitNonZero" ->
                 /\ UNCHANGED marker
                 /\ Settle(c, batch, "result", FALSE, "Failed to install packages",
                           venv[call.kernelName], marker[call.kernelName])
            [] outcome = "spawnError" ->
                 /\ UNCHANGED marker
                 /\ Settle(c, batch, "raised", FALSE, "spawn error",
                           venv[call.kernelName], marker[call.kernelName])
  /\ infoFresh' = (infoFresh /\ marker' = marker)
  /\ UNCHANGED <<kernelDir, venv, req, edits, token, infoList, regVars, frameVars, toolVars>>

\* ------------------------------------------------------------------------
\* venvManager.setupAllKernels
\* ------------------------------------------------------------------------
SetupAllKernels(force) ==
  /\ pc = "idle"
  /\ token' = FALSE
  /\ batch' = [active |-> TRUE, command |-> FALSE, force |-> force, idx |-> 1,
               results |-> << >>, attempted |-> << >>]
  /\ batchOutcome' = NoOutcome
  /\ pc' = "batchLoop"
  /\ UNCHANGED <<fsVars, call, last, infoVars, regVars, frameVars, toolVars>>

\* variant: a cancelled turn pushes its entry and the loop goes on
SetupAllLoopNoBreak ==
  /\ pc = "batchLoop"
  /\ IF batch.idx > Len(KernelOrder)
     THEN /\ batchOutcome' = [kind |-> "returned", results |-> batch.results,
                              attempted |-> batch.attempted, cancelled |-> token]
          /\ batch' = NoBatch
          /\ pc' = "idle"
          /\ UNCHANGED <<venv, marker, call, last>>
     ELSE IF token
     THEN /\ batch' = [batch EXCEPT
                         !.results = Append(@, SetupResult(FALSE, KernelOrder[batch.idx], "Cancelled")),
                         !.idx = @ + 1]
          /\ UNCHANGED <<venv, marker, call, last, pc, batchOutcome>>
     ELSE Begin(KernelOrder[batch.idx], batch.force, NoVariant,
                [batch EXCEPT !.attempted = Append(@, KernelOrder[batch.idx])])
  /\ infoFresh' = (infoFresh /\ venv' = venv /\ marker' = marker)
  /\ UNCHANGED <<kernelDir, req, edits, token, infoList, regVars, frameVars, toolVars>>

\* one turn of the for loop, lines 262-270
SetupAllLoop ==
  /\ pc = "batchLoop"
  /\ IF batch.idx > Len(KernelOrder)
     THEN /\ batchOutcome' = [kind |-> "returned", results |-> batch.results,
                              attempted |-> batch.attempted, cancelled |-> token]
          /\ batch' = NoBatch
          /\ pc' = "idle"
          /\ UNCHANGED <<venv, marker, call, last>>
     ELSE IF token
     THEN /\ batchOutcome' =
               [kind |-> "returned",
                results |-> Append(batch.results,
                                   SetupResult(FALSE, KernelOrder[batch.idx], "Cancelled")),
                attempted |-> batch.attempted, cancelled |-> token]
          /\ batch' = NoBatch
          /\ pc' = "idle"
          /\ UNCHANGED <<venv, marker, call, last>>
     ELSE Begin(KernelOrder[batch.idx], batch.force, NoVariant,
                [batch EXCEPT !.attempted = Append(@, KernelOrder[batch.idx])])
  /\ infoFresh' = (infoFresh /\ venv' = venv /\ marker' = marker)
  /\ UNCHANGED <<kernelDir, req, edits, token, infoList, regVars, frameVars, toolVars>>

\* ------------------------------------------------------------------------
\* Environment: edits of specifier files and the user's cancel button
\* ------------------------------------------------------------------------
EditRequirements(path, content) ==
  /\ edits < MaxEdits
  /\ req[path] # content
  /\ req' = [req EXCEPT ![path] = content]
  /\ edits' = edits + 1
  /\ call' = IF call.requirementsPath = path
             THEN [call EXCEPT !.editedDuring = TRUE] ELSE call
  /\ last' = IF last.requirementsPath = path
             THEN [last EXCEPT !.editedAfter = TRUE] ELSE last
  /\ infoFresh' = FALSE
  /\ UNCHANGED <<kernelDir, venv, marker, pc, token, batch, batchOutcome,
                 infoList, regVars, frameVars, toolVars>>

Cancel ==
  /\ pc # "idle"
  /\ ~token
  /\ token' = TRUE
  /\ UNCHANGED <<fsVars, pc, call, batch, batchOutcome, last, infoVars, regVars, frameVars, toolVars>>

\* ------------------------------------------------------------------------
\* kernelRegistrar
\* ------------------------------------------------------------------------
\* names are built by string concatenation; a string is held as the sequence
\* of its characters
Chars(str) ==
  CASE str = "common" -> <<"c", "o", "m", "m", "o", "n">>
    [] str = "pytorch_study" ->
         <<"p", "y", "t", "o", "r", "c", "h", "_", "s", "t", "u", "d", "y">>
    [] str = "gpu" -> <<"g", "p", "u">>
    [] str = "cpu" -> <<"c", "p", "u">>
    [] str = "py-learn-pytorch_study" ->
         <<"p", "y", "-", "l", "e", "a", "r", "n", "-",
           "p", "y", "t", "o", "r", "c", "h", "_", "s", "t", "u", "d", "y">>
    [] str = "py-learn-pytorch_study-gpu" ->
         <<"p", "y", "-", "l", "e", "a", "r", "n", "-",
           "p", "y", "t", "o", "r", "c", "h", "_", "s", "t", "u", "d", "y", "-", "g", "p", "u">>
    [] str = "py-learn-pytorch_study-cpu" ->
         <<"p", "y", "-", "l", "e", "a", "r", "n", "-",
           "p", "y", "t", "o", "r", "c", "h", "_", "s", "t", "u", "d", "y", "-", "c", "p", "u">>
    [] str = "tpu" -> <<"t", "p", "u">>
    [] str = "py-learn" -> <<"p", "y", "-", "l", "e", "a", "r", "n">>
    [] str = "py-learn-common" ->
         <<"p", "y", "-", "l", "e", "a", "r", "n", "-", "c", "o", "m", "m", "o", "n">>
    [] str = "python3" -> <<"p", "y", "t", "h", "o", "n", "3">>
    [] str = "" -> << >>
    [] str = "default" ->
         <<"d", "e", "f", "a", "u", "l", "t">>
    [] str = "study" ->
         <<"s", "t", "u", "d", "y">>
    [] str = "Torch" ->
         <<"T", "o", "r", "c", "h">>
    [] str = "ml" ->
         <<"m", "l">>
    [] str = "a/b" ->
         <<"a", "/", "b">>
    [] str = "a-b" ->
         <<"a", "-", "b">>
    [] str = "a" -> <<"a">>
    [] str = "b" -> <<"b">>
    [] str = "pytorch_study/nb.ipynb" ->
         <<"p", "y", "t", "o", "r", "c", "h", "_", "s", "t", "u", "d", "y", "/", "n", "b", ".", "i", "p", "y", "n", "b">>
    [] str = "PyTorch_Study\\nb.ipynb" ->
         <<"P", "y", "T", "o", "r", "c", "h", "_", "S", "t", "u", "d", "y", "\\", "n", "b", ".", "i", "p", "y", "n", "b">>
    [] str = "ml\\Common/nb.ipynb" ->
         <<"m", "l", "\\", "C", "o", "m", "m", "o", "n", "/", "n", "b", ".", "i", "p", "y", "n", "b">>
    [] str = "notes/nb.ipynb" ->
         <<"n", "o", "t", "e", "s", "/", "n", "b", ".", "i", "p", "y", "n", "b">>
    [] str = "A\\b.ipynb" ->
         <<"A", "\\", "b", ".", "i", "p", "y", "n", "b">>

getKernelPrefix == "py-learn"

\* `${prefix}-${kernelName}` or `${prefix}-${kernelName}-${variant}`
getKernelSpecName(kernelName, variant) ==
  IF variant # NoVariant
  THEN Chars(getKernelPrefix) \o <<"-">> \o Chars(kernelName) \o <<"-">> \o Chars(variant)
  ELSE Chars(getKernelPrefix) \o <<"-">> \o Chars(kernelName)

\* the (kernel, variant) pairs the registration commands are run with
RegTargets == {<<"common", NoVariant>>, <<"pytorch_study", NoVariant>>,
               <<"pytorch_study", "gpu">>}

SpecNames ==
  {getKernelSpecName(t[1], t[2]) : t \in RegTargets \cup {<<"pytorch_study", "cpu">>}}

\* a spec directory: whether it exists and the kernel.json inside it, held as
\* << >> when the file is missing and <<content>> otherwise
NoJson == << >>
AbsentDir == [dir |-> FALSE, json |-> NoJson]

getVenvPythonPath(kernelName) ==
  <<kernelName, ".venv", IF isWindows THEN "Scripts/python.exe" ELSE "bin/python">>

\* variant: the env field is always written
buildKernelSpecAlwaysEnv(pythonPath, displayName, env) ==
  [argv |-> <<pythonPath, "-m", "ipykernel_launcher", "-f", "{connection_file}">>,
   display_name |-> displayName,
   language |-> "python",
   metadata |-> [debugger |-> TRUE],
   env |-> env]

\* the env field is left out when the definition has no variables
buildKernelSpec(pythonPath, displayName, env) ==
  IF DOMAIN env # {}
  THEN [argv |-> <<pythonPath, "-m", "ipykernel_launcher", "-f", "{connection_file}">>,
        display_name |-> displayName,
        language |-> "python",
        metadata |-> [debugger |-> TRUE],
        env |-> env]
  ELSE [argv |-> <<pythonPath, "-m", "ipykernel_launcher", "-f", "{connection_file}">>,
        display_name |-> displayName,
        language |-> "python",
        metadata |-> [debugger |-> TRUE]]

isKernelRegistered(kernelName, variant) ==
  shared[getKernelSpecName(kernelName, variant)].json # NoJson

\* variant: only the file inside the directory is deleted
removeSpecFileOnly(entry) == [dir |-> entry.dir, json |-> NoJson]

\* removeDirectorySafely: fs.rm(dir, { recursive: true, force: true })
removeDirectorySafely(entry) == AbsentDir

NoReg == [op |-> "none", kernelName |-> "", variant |-> NoVariant,
          success |-> FALSE, message |-> "", venvValid |-> FALSE,
          wasRegistered |-> FALSE, registered |-> FALSE,
          dirBefore |-> FALSE, dirAfter |-> FALSE, changed |-> FALSE,
          afterUnregister |-> FALSE, parity |-> 0]

\* the record kept of a registerKernel / unregisterKernel invocation, taken
\* in the state it leaves behind
RegRecord(op, kernelName, variant, success, message) ==
  LET name == getKernelSpecName(kernelName, variant)
  IN [op |-> op, kernelName |-> kernelName, variant |-> variant,
      success |-> success, message |-> message,
      venvValid |-> venv[kernelName] = "valid",
      wasRegistered |-> shared[name].json # NoJson,
      registered |-> shared'[name].json # NoJson,
      dirBefore |-> shared[name].dir,
      dirAfter |-> shared'[name].dir,
      changed |-> shared' # shared \/ local' # local,
      afterUnregister |-> /\ regLast.op = "unregister"
                          /\ regLast.success
                          /\ regLast.kernelName = kernelName
                          /\ regLast.variant = variant,
      parity |-> 1 - regLast.parity]

WriteOutcomes == {"ok", "mkdirFail", "writeFail"}

\* fs.mkdir(dir, { recursive: true }) then fs.writeFile(dir/kernel.json)
WriteSpec(entry, spec, outcome) ==
  CASE outcome = "ok" -> [dir |-> TRUE, json |-> <<spec>>]
    [] outcome = "mkdirFail" -> entry
    [] outcome = "writeFail" -> [dir |-> TRUE, json |-> entry.json]

\* writeWindowsProjectLocal, lines 236-285: robocopy of the shared directory
\* for a sandboxed interpreter, a direct write otherwise; failures are logged
WriteWindowsProjectLocal(name, spec) ==
  \E sandboxed \in BOOLEAN :
    IF sandboxed
    THEN \E copied \in BOOLEAN :
           local' = IF copied THEN [local EXCEPT ![name] = shared'[name]] ELSE local
    ELSE \E outcome \in WriteOutcomes :
           local' = [local EXCEPT ![name] = WriteSpec(local[name], spec, outcome)]

\* a config whose kernel names use the hyphen the Add New Kernel command
\* accepts (commands.ts lines 404-410): kernel "a-b", and kernel "a" with
\* the variant "b"
HyphenOrder == <<"a-b", "a">>

HyphenNames == {HyphenOrder[i] : i \in 1..Len(HyphenOrder)}

HyphenConfig ==
  [k \in HyphenNames |->
     IF k = "a-b"
     THEN [display_name |-> "A-B",
           requirements_file |-> Undefined,
           env |-> << >>,
           variants |-> << >>]
     ELSE [display_name |-> "A",
           requirements_file |-> Undefined,
           env |-> << >>,
           variants |-> [v \in {"b"} |->
                           [display_name |-> "A (B)",
                            requirements_file |-> "requirements-b.txt"]]]]

\* the definition a command passes along with a kernel name
KernelDefinitions == KernelsConfig @@ HyphenConfig

\* the (kernel, variant) pairs of that config
HyphenTargets == {<<"a-b", NoVariant>>, <<"a", NoVariant>>, <<"a", "b">>}

HyphenSpecNames == {getKernelSpecName(t[1], t[2]) : t \in HyphenTargets}

\* registerKernel, lines 78-138
registerKernel(kernelName, variant) ==
  LET definition == KernelDefinitions[kernelName]
      name == getKernelSpecName(kernelName, variant)
      displayName ==
        IF /\ variant # NoVariant
           /\ variant \in DOMAIN definition.variants
           /\ definition.variants[variant].display_name # Undefined
        THEN definition.variants[variant].display_name
        ELSE definition.display_name
      spec == buildKernelSpec(getVenvPythonPath(kernelName), displayName, definition.env)
  IN IF ~workspaceOpen
        THEN /\ UNCHANGED <<shared, local>>
             /\ regLast' = RegRecord("register", kernelName, variant, FALSE,
                                     "No workspace folder open")
        ELSE IF ~isVenvValid(venv[kernelName])
        THEN /\ UNCHANGED <<shared, local>>
             /\ regLast' = RegRecord("register", kernelName, variant, FALSE,
                                     "Venv not found")
        ELSE \E outcome \in WriteOutcomes :
               /\ shared' = [shared EXCEPT ![name] = WriteSpec(shared[name], spec, outcome)]
               /\ IF outcome # "ok"
                  THEN /\ UNCHANGED local
                       /\ regLast' = RegRecord("register", kernelName, variant,
                                               FALSE, "Failed to write spec")
                  ELSE /\ IF isWindows
                          THEN WriteWindowsProjectLocal(name, spec)
                          ELSE UNCHANGED local
                       /\ regLast' = RegRecord("register", kernelName, variant,
                                               TRUE, "Registered")

\* variant: registering a kernel deletes the hash marker of its environment
RegisterKernelResetsMarker(kernelName, variant) ==
  /\ pc = "idle"
  /\ registerKernel(kernelName, variant)
  /\ marker' = [marker EXCEPT ![kernelName] = NoMarker]
  /\ UNCHANGED <<kernelDir, venv, req, edits, setupVars, infoVars, frameVars,
                 regBatch, regOutcome, toolVars>>

\* a command invokes registerKernel
RegisterKernel(kernelName, variant) ==
  /\ pc = "idle"
  /\ registerKernel(kernelName, variant)
  /\ UNCHANGED <<fsVars, setupVars, infoVars, frameVars, regBatch, regOutcome, toolVars>>

\* unregisterKernel, lines 166-210
UnregisterKernel(kernelName, variant) ==
  LET name == getKernelSpecName(kernelName, variant)
  IN /\ pc = "idle"
     /\ IF ~shared[name].dir
        THEN /\ UNCHANGED <<shared, local>>
             /\ regLast' = RegRecord("unregister", kernelName, variant, FALSE,
                                     "Kernelspec not found")
        ELSE \E rmOk \in BOOLEAN :
               IF ~rmOk
               THEN /\ \E partial \in BOOLEAN :
                         shared' = IF partial
                                   THEN [shared EXCEPT ![name] = [dir |-> TRUE, json |-> NoJson]]
                                   ELSE shared
                    /\ UNCHANGED local
                    /\ regLast' = RegRecord("unregister", kernelName, variant,
                                            FALSE, "Failed to remove")
               ELSE /\ shared' = [shared EXCEPT ![name] = removeDirectorySafely(@)]
                    /\ IF isWindows /\ workspaceOpen /\ local[name].dir
                       THEN \E localRmOk \in BOOLEAN :
                              local' = IF localRmOk
                                       THEN [local EXCEPT ![name] = removeDirectorySafely(@)]
                                       ELSE local
                       ELSE UNCHANGED local
                    /\ regLast' = RegRecord("unregister", kernelName, variant,
                                            TRUE, "Unregistered")
     /\ UNCHANGED <<fsVars, setupVars, infoVars, frameVars, regBatch, regOutcome, toolVars>>

\* ------------------------------------------------------------------------
\* kernelRegistrar.registerAllKernels
\* ------------------------------------------------------------------------
\* the kernels objects registerAllKernels is called with, as their entries in
\* iteration order
RegConfigs == {<< >>, <<"common">>, KernelOrder}

RegistrationResult(success, kernelName, specName, message) ==
  [success |-> success, kernelName |-> kernelName, specName |-> specName,
   message |-> message]

\* locals of registerAllKernels, with what is recorded about the run: the
\* kernels registerKernel was invoked on, what it returned, and the index of
\* the turn that found the token cancelled (0 when none did)
NoRegBatch == [active |-> FALSE, kernels |-> << >>, idx |-> 0, results |-> << >>,
               invoked |-> << >>, returned |-> << >>, cancelledAtEntry |-> FALSE]

NoRegOutcome == [kind |-> "none", kernels |-> << >>, results |-> << >>,
                 invoked |-> << >>, returned |-> << >>,
                 cancelledAtEntry |-> FALSE, observedAt |-> 0]

\* lines 143-147: the caller's token may already be cancelled
RegisterAllKernels(kernels, cancelled) ==
  /\ pc = "idle"
  /\ token' = cancelled
  /\ regBatch' = [active |-> TRUE, kernels |-> kernels, idx |-> 1,
                  results |-> << >>, invoked |-> << >>, returned |-> << >>,
                  cancelledAtEntry |-> cancelled]
  /\ regOutcome' = NoRegOutcome
  /\ pc' = "regLoop"
  /\ UNCHANGED <<fsVars, call, batch, batchOutcome, last, infoVars, shared, local,
                 regLast, frameVars, toolVars>>

RegAllReturn(results, observedAt) ==
  /\ regOutcome' = [kind |-> "returned", kernels |-> regBatch.kernels,
                    results |-> results, invoked |-> regBatch.invoked,
                    returned |-> regBatch.returned,
                    cancelledAtEntry |-> regBatch.cancelledAtEntry,
                    observedAt |-> observedAt]
  /\ regBatch' = NoRegBatch
  /\ pc' = "idle"
  /\ UNCHANGED <<shared, local, regLast>>

\* variant: the token is only looked at after a kernel has been registered
RegisterAllLoopChecksAfter ==
  /\ pc = "regLoop"
  /\ IF regBatch.idx > Len(regBatch.kernels)
     THEN RegAllReturn(regBatch.results, 0)
     ELSE LET name == regBatch.kernels[regBatch.idx]
          IN /\ registerKernel(name, NoVariant)
             /\ LET result == RegistrationResult(regLast'.success, name,
                                                 getKernelSpecName(name, NoVariant),
                                                 regLast'.message)
                IN IF token
                   THEN /\ regOutcome' =
                             [kind |-> "returned", kernels |-> regBatch.kernels,
                              results |-> Append(Append(regBatch.results, result),
                                                 RegistrationResult(FALSE, name, << >>, "Cancelled")),
                              invoked |-> Append(regBatch.invoked, name),
                              returned |-> Append(regBatch.returned, result),
                              cancelledAtEntry |-> regBatch.cancelledAtEntry,
                              observedAt |-> regBatch.idx]
                        /\ regBatch' = NoRegBatch
                        /\ pc' = "idle"
                   ELSE /\ regBatch' = [regBatch EXCEPT
                                          !.results = Append(@, result),
                                          !.invoked = Append(@, name),
                                          !.returned = Append(@, result),
                                          !.idx = @ + 1]
                        /\ UNCHANGED <<pc, regOutcome>>
  /\ UNCHANGED <<fsVars, call, token, batch, batchOutcome, last, infoVars, frameVars, toolVars>>

\* one turn of the for loop, lines 149-156, or the return of line 158
RegisterAllLoop ==
  /\ pc = "regLoop"
  /\ IF regBatch.idx > Len(regBatch.kernels)
     THEN RegAllReturn(regBatch.results, 0)
     ELSE LET name == regBatch.kernels[regBatch.idx]
          IN IF token
             THEN RegAllReturn(Append(regBatch.results,
                                      RegistrationResult(FALSE, name, << >>, "Cancelled")),
                               regBatch.idx)
             ELSE /\ registerKernel(name, NoVariant)
                  /\ regBatch' =
                       LET result == RegistrationResult(regLast'.success, name,
                                                        getKernelSpecName(name, NoVariant),
                                                        regLast'.message)
                       IN [regBatch EXCEPT !.results = Append(@, result),
                                           !.invoked = Append(@, name),
                                           !.returned = Append(@, result),
                                           !.idx = @ + 1]
                  /\ UNCHANGED <<pc, regOutcome>>
  /\ UNCHANGED <<fsVars, call, token, batch, batchOutcome, last, infoVars, frameVars, toolVars>>

\* ------------------------------------------------------------------------
\* notebookUpdater.resolveKernelForNotebook
\* ------------------------------------------------------------------------
MaxNames == 3

\* String.prototype.toLowerCase, character by character
LowerChar(c) ==
  CASE c = "A" -> "a"
    [] c = "C" -> "c"
    [] c = "P" -> "p"
    [] c = "S" -> "s"
    [] c = "T" -> "t"
    [] OTHER -> c

toLowerCase(s) == [i \in 1..Len(s) |-> LowerChar(s[i])]

\* replace(/\\/g, '/')
ReplaceBackslashes(s) == [i \in 1..Len(s) |-> IF s[i] = "\\" THEN "/" ELSE s[i]]

\* String.prototype.includes
includes(s, part) ==
  \E i \in 0..(Len(s) - Len(part)) : \A j \in 1..Len(part) : s[i + j] = part[j]

\* Array.prototype.includes
ArrayIncludes(array, x) == \E i \in 1..Len(array) : array[i] = x

\* variant: among names of one length the later one comes first
RECURSIVE SortByLengthDescendingLaterFirst(_)
SortByLengthDescendingLaterFirst(names) ==
  IF names = << >> THEN << >>
  ELSE LET n == Len(names)
           rest == SortByLengthDescendingLaterFirst(SubSeq(names, 1, n - 1))
           x == names[n]
           k == Cardinality({i \in 1..Len(rest) : Len(Chars(rest[i])) > Len(Chars(x))})
       IN SubSeq(rest, 1, k) \o <<x>> \o SubSeq(rest, k + 1, Len(rest))

\* Array.prototype.sort with (a, b) => b.length - a.length: a stable sort, the
\* names of one length keep their input order
RECURSIVE SortByLengthDescending(_)
SortByLengthDescending(names) ==
  IF names = << >> THEN << >>
  ELSE LET n == Len(names)
           rest == SortByLengthDescending(SubSeq(names, 1, n - 1))
           x == names[n]
           \* x goes after every name at least as long as it
           k == Cardinality({i \in 1..Len(rest) : Len(Chars(rest[i])) >= Len(Chars(x))})
       IN SubSeq(rest, 1, k) \o <<x>> \o SubSeq(rest, k + 1, Len(rest))

\* the first element of a list that satisfies a test, as a for loop with an
\* early return finds it
RECURSIVE FirstWhere(_, _, _)
FirstWhere(list, Test(_), none) ==
  IF list = << >> THEN none
  ELSE IF Test(Head(list)) THEN Head(list)
  ELSE FirstWhere(Tail(list), Test, none)

\* variant: the names are tried in their input order
resolveKernelForNotebookUnsorted(notebookRelPath, kernelNames) ==
  LET pathParts == toLowerCase(ReplaceBackslashes(Chars(notebookRelPath)))
      Matches(name) == includes(pathParts, toLowerCase(Chars(name)))
      IsCandidate(name) == ArrayIncludes(kernelNames, name)
      match == FirstWhere(kernelNames, Matches, Undefined)
      fallback == FirstWhere(<<"default", "common">>, IsCandidate, Undefined)
  IN IF match # Undefined THEN match
     ELSE IF fallback # Undefined THEN fallback
     ELSE IF Len(kernelNames) > 0 THEN kernelNames[1] ELSE Undefined

\* resolveKernelForNotebook, lines 48-72
resolveKernelForNotebook(notebookRelPath, kernelNames) ==
  LET pathParts == toLowerCase(ReplaceBackslashes(Chars(notebookRelPath)))
      sorted == SortByLengthDescending(kernelNames)
      Matches(name) == includes(pathParts, toLowerCase(Chars(name)))
      IsCandidate(name) == ArrayIncludes(kernelNames, name)
      match == FirstWhere(sorted, Matches, Undefined)
      fallback == FirstWhere(<<"default", "common">>, IsCandidate, Undefined)
  IN IF match # Undefined THEN match
     ELSE IF fallback # Undefined THEN fallback
     ELSE IF Len(kernelNames) > 0 THEN kernelNames[1] ELSE Undefined

\* the inputs the function is applied to
CandidateNames == {"common", "default", "study", "Torch", "pytorch_study", "ml", "a/b"}

NotebookPaths == {"pytorch_study/nb.ipynb", "PyTorch_Study\\nb.ipynb",
                  "ml\\Common/nb.ipynb", "notes/nb.ipynb", "A\\b.ipynb"}

\* lists of distinct names, as the keys of an object are
NameLists ==
  UNION {{l \in [1..n -> CandidateNames] : \A i, j \in 1..n : i # j => l[i] # l[j]} :
         n \in 0..MaxNames}

NoResolve == [called |-> FALSE, notebookRelPath |-> "", kernelNames |-> << >>,
              result |-> Undefined]

\* the call is applied to the arguments it was given
ResolveKernelForNotebook ==
  /\ pc = "idle"
  /\ ~resolveCall.called
  /\ resolveCall' = [resolveCall EXCEPT
                       !.called = TRUE,
                       !.result = resolveKernelForNotebook(resolveCall.notebookRelPath,
                                                           resolveCall.kernelNames)]
  /\ UNCHANGED <<fsVars, setupVars, infoVars, regVars, frameVars, notebooks, nbLast,
                 nbBatch, nbOutcome, mirrorVars, uiVars>>

\* ------------------------------------------------------------------------
\* notebookUpdater.updateSingleNotebook
\* ------------------------------------------------------------------------
\* the notebooks findNotebooks returns, in the order of the localeCompare sort
NotebookOrder == <<"notes/nb.ipynb", "pytorch_study/nb.ipynb">>

NotebookFiles == {NotebookOrder[i] : i \in 1..Len(NotebookOrder)}

\* kernelspec.name when the field, the kernelspec or the metadata is missing
NoName == <<Undefined>>

\* what JSON.parse makes of a file's text: a syntax error ("malformed"), the
\* value null, or an object with its metadata.kernelspec fields
JsonValue(kind, name, display_name, language) ==
  [kind |-> kind, name |-> name, display_name |-> display_name, language |-> language]

\* a file: whether it can be read, how its text is laid out, and the value
\* the text denotes
NotebookFile(readable, format, json) ==
  [readable |-> readable, format |-> format, json |-> json]

NoNotebook == NotebookFile(FALSE, "compact", JsonValue("malformed", NoName, Undefined, Undefined))

JsonValues ==
  {JsonValue("malformed", NoName, Undefined, Undefined),
   JsonValue("null", NoName, Undefined, Undefined),
   JsonValue("object", NoName, Undefined, Undefined)}
  \cup {JsonValue("object", name, d[1], d[2]) :
          name \in {getKernelSpecName("common", NoVariant), Chars("python3")},
          d \in {<<"Python 3", "python">>, <<"Julia", "julia">>}}

\* the files the workspace starts with
NotebookContents ==
  {NoNotebook} \cup {NotebookFile(TRUE, "compact", j) : j \in JsonValues}

JSONparse(file) == file.json

\* JSON.stringify(nb, null, 2) + '\n'
JSONstringifyPretty(json) == NotebookFile(TRUE, "pretty", json)

NotebookUpdateResult(filePath, oldKernel, newKernel, updated, error) ==
  [filePath |-> filePath, oldKernel |-> oldKernel, newKernel |-> newKernel,
   updated |-> updated, error |-> error]

NbWriteOutcomes == {"ok", "fail", "failTruncated"}

\* variant: the stored name is not read
OldKernelNeverRead(nb) == << >>

\* (kernelspec.name as string) ?? '', line 114
OldKernel(nb) == IF nb.name = NoName THEN << >> ELSE nb.name

\* variant: a dry run reports no prospective change
updateSingleNotebookDryRunSilent(notebookPath, file, kernelSpecName, displayName, dryRun, writeOutcome) ==
  LET nb == JSONparse(file)
      oldKernel == OldKernel(nb)
      updated == JsonValue("object", kernelSpecName, displayName, "python")
      Return(kind, result, after, wrote) ==
        [kind |-> kind, result |-> result, file |-> after, wrote |-> wrote]
  IN IF ~file.readable
     THEN Return("result", NotebookUpdateResult(notebookPath, << >>, kernelSpecName, FALSE, "Read error"), file, FALSE)
     ELSE IF nb.kind = "malformed"
     THEN Return("result", NotebookUpdateResult(notebookPath, << >>, kernelSpecName, FALSE, "Parse error"), file, FALSE)
     ELSE IF nb.kind = "null"
     THEN Return("raised", NotebookUpdateResult(notebookPath, << >>, kernelSpecName, FALSE, "TypeError"), file, FALSE)
     ELSE IF oldKernel = kernelSpecName
     THEN Return("result", NotebookUpdateResult(notebookPath, oldKernel, kernelSpecName, FALSE, ""), file, FALSE)
     ELSE IF dryRun
     THEN Return("result", NotebookUpdateResult(notebookPath, oldKernel, kernelSpecName, FALSE, ""), file, FALSE)
     ELSE IF writeOutcome = "ok"
     THEN Return("result", NotebookUpdateResult(notebookPath, oldKernel, kernelSpecName, TRUE, ""),
                 JSONstringifyPretty(updated), TRUE)
     ELSE Return("result", NotebookUpdateResult(notebookPath, oldKernel, kernelSpecName, FALSE, "Write error"),
                 IF writeOutcome = "failTruncated"
                 THEN NotebookFile(TRUE, "compact", JsonValue("malformed", NoName, Undefined, Undefined))
                 ELSE file,
                 writeOutcome = "failTruncated")

\* updateSingleNotebook, lines 80-139: what it settles with, the file it
\* leaves and whether it wrote to it.  Reading a property of null (line 104)
\* is a TypeError outside both try blocks.
updateSingleNotebook(notebookPath, file, kernelSpecName, displayName, dryRun, writeOutcome) ==
  LET nb == JSONparse(file)
      oldKernel == OldKernel(nb)
      updated == JsonValue("object", kernelSpecName, displayName, "python")
      Return(kind, result, after, wrote) ==
        [kind |-> kind, result |-> result, file |-> after, wrote |-> wrote]
  IN IF ~file.readable
     THEN Return("result", NotebookUpdateResult(notebookPath, << >>, kernelSpecName, FALSE, "Read error"), file, FALSE)
     ELSE IF nb.kind = "malformed"
     THEN Return("result", NotebookUpdateResult(notebookPath, << >>, kernelSpecName, FALSE, "Parse error"), file, FALSE)
     ELSE IF nb.kind = "null"
     THEN Return("raised", NotebookUpdateResult(notebookPath, << >>, kernelSpecName, FALSE, "TypeError"), file, FALSE)
     ELSE IF oldKernel = kernelSpecName
     THEN Return("result", NotebookUpdateResult(notebookPath, oldKernel, kernelSpecName, FALSE, ""), file, FALSE)
     ELSE IF dryRun
     THEN Return("result", NotebookUpdateResult(notebookPath, oldKernel, kernelSpecName, TRUE, ""), file, FALSE)
     ELSE IF writeOutcome = "ok"
     THEN Return("result", NotebookUpdateResult(notebookPath, oldKernel, kernelSpecName, TRUE, ""),
                 JSONstringifyPretty(updated), TRUE)
     ELSE Return("result", NotebookUpdateResult(notebookPath, oldKernel, kernelSpecName, FALSE, "Write error"),
                 IF writeOutcome = "failTruncated"
                 THEN NotebookFile(TRUE, "compact", JsonValue("malformed", NoName, Undefined, Undefined))
                 ELSE file,
                 writeOutcome = "failTruncated")

NoUpdate == [called |-> FALSE, notebookPath |-> "", kernelSpecName |-> << >>,
             displayName |-> "", dryRun |-> FALSE, kind |-> "none",
             result |-> NotebookUpdateResult("", << >>, << >>, FALSE, ""),
             wrote |-> FALSE, fileBefore |-> NoNotebook, fileAfter |-> NoNotebook,
             othersChanged |-> FALSE]

\* the record kept of an updateSingleNotebook call
UpdateRecord(notebookPath, kernelSpecName, displayName, dryRun, r) ==
  [called |-> TRUE, notebookPath |-> notebookPath, kernelSpecName |-> kernelSpecName,
   displayName |-> displayName, dryRun |-> dryRun, kind |-> r.kind,
   result |-> r.result, wrote |-> r.wrote,
   fileBefore |-> notebooks[notebookPath], fileAfter |-> notebooks'[notebookPath],
   othersChanged |-> \E p \in NotebookFiles \ {notebookPath} : notebooks'[p] # notebooks[p]]

\* a caller applies updateSingleNotebook to a notebook with the spec of one
\* of the kernels
UpdateSingleNotebook(notebookPath, kernelName, dryRun) ==
  /\ pc = "idle"
  /\ \E writeOutcome \in NbWriteOutcomes :
       LET specName == getKernelSpecName(kernelName, NoVariant)
           displayName == KernelsConfig[kernelName].display_name
           r == updateSingleNotebook(notebookPath, notebooks[notebookPath], specName,
                                     displayName, dryRun, writeOutcome)
       IN /\ notebooks' = [notebooks EXCEPT ![notebookPath] = r.file]
          /\ nbLast' = UpdateRecord(notebookPath, specName, displayName, dryRun, r)
  /\ UNCHANGED <<fsVars, setupVars, infoVars, regVars, frameVars, resolveCall,
                 nbBatch, nbOutcome, mirrorVars, uiVars>>

\* ------------------------------------------------------------------------
\* notebookUpdater.updateNotebookKernels
\* ------------------------------------------------------------------------
\* locals of updateNotebookKernels, with what is recorded about the run: the
\* files as they were at entry, the notebooks updateSingleNotebook was applied
\* to, whether a write failed, and the turn that found the token cancelled
NoNbBatch == [active |-> FALSE, dryRun |-> FALSE, idx |-> 0, results |-> << >>,
              processed |-> << >>, filesAtEntry |-> << >>, writeFailed |-> FALSE,
              afterCancel |-> FALSE]

NoNbOutcome == [kind |-> "none", dryRun |-> FALSE, results |-> << >>,
                updated |-> 0, skipped |-> 0, errors |-> 0,
                processed |-> << >>, filesAtEntry |-> << >>,
                filesAtReturn |-> << >>, writeFailed |-> FALSE,
                afterCancel |-> FALSE, observedAt |-> 0, dry |-> << >>]

CountWhere(results, Test(_)) == Cardinality({i \in 1..Len(results) : Test(results[i])})

\* lines 220-233: the summary returned, and what is kept of a complete dry
\* run to compare a later real run with
NbReturn(results, observedAt) ==
  LET IsUpdated(r) == r.updated
      IsSkipped(r) == ~r.updated /\ r.error = ""
      IsError(r) == r.error # ""
  IN /\ nbOutcome' =
          [kind |-> "returned", dryRun |-> nbBatch.dryRun, results |-> results,
           updated |-> CountWhere(results, IsUpdated),
           skipped |-> CountWhere(results, IsSkipped),
           errors |-> CountWhere(results, IsError),
           processed |-> nbBatch.processed,
           filesAtEntry |-> nbBatch.filesAtEntry,
           filesAtReturn |-> <<notebooks>>,
           writeFailed |-> nbBatch.writeFailed,
           afterCancel |-> nbBatch.afterCancel,
           observedAt |-> observedAt,
           dry |-> IF nbBatch.dryRun /\ observedAt = 0
                   THEN <<[results |-> results, filesAtEntry |-> nbBatch.filesAtEntry]>>
                   ELSE nbOutcome.dry]
     /\ nbBatch' = NoNbBatch
     /\ pc' = "idle"

\* lines 151-186
UpdateNotebookKernels(dryRun, cancelled) ==
  /\ pc = "idle"
  /\ token' = cancelled
  /\ IF ~workspaceOpen
     THEN /\ nbOutcome' = [NoNbOutcome EXCEPT !.kind = "returned", !.dryRun = dryRun,
                                              !.filesAtEntry = <<notebooks>>,
                                              !.filesAtReturn = <<notebooks>>]
          /\ UNCHANGED <<pc, nbBatch>>
     ELSE /\ nbBatch' = [active |-> TRUE, dryRun |-> dryRun, idx |-> 1,
                         results |-> << >>, processed |-> << >>,
                         filesAtEntry |-> <<notebooks>>, writeFailed |-> FALSE,
                         afterCancel |-> FALSE]
          /\ pc' = "nbLoop"
          /\ UNCHANGED nbOutcome
  /\ UNCHANGED <<fsVars, call, batch, batchOutcome, last, infoVars, regVars,
                 frameVars, resolveCall, notebooks, nbLast, mirrorVars, uiVars>>

\* variant: the token is not looked at
UpdateNotebooksLoopIgnoresToken ==
  /\ pc = "nbLoop"
  /\ IF nbBatch.idx > Len(NotebookOrder)
     THEN /\ NbReturn(nbBatch.results, 0)
          /\ UNCHANGED <<notebooks, nbLast>>
     ELSE LET notebookPath == NotebookOrder[nbBatch.idx]
              kernelName == resolveKernelForNotebook(notebookPath, KernelOrder)
          IN IF kernelName = Undefined
             THEN /\ nbBatch' = [nbBatch EXCEPT
                                   !.results = Append(@, NotebookUpdateResult(
                                                  notebookPath, << >>, << >>, FALSE,
                                                  "No matching kernel")),
                                   !.idx = @ + 1]
                  /\ UNCHANGED <<pc, nbOutcome, notebooks, nbLast>>
             ELSE \E writeOutcome \in NbWriteOutcomes :
                    LET specName == getKernelSpecName(kernelName, NoVariant)
                        displayName == KernelsConfig[kernelName].display_name
                        r == updateSingleNotebook(notebookPath, notebooks[notebookPath],
                                                  specName, displayName, nbBatch.dryRun,
                                                  writeOutcome)
                    IN /\ notebooks' = [notebooks EXCEPT ![notebookPath] = r.file]
                       /\ nbLast' = UpdateRecord(notebookPath, specName, displayName,
                                                 nbBatch.dryRun, r)
                       /\ IF r.kind = "raised"
                          THEN /\ nbOutcome' = [NoNbOutcome EXCEPT
                                                  !.kind = "raised",
                                                  !.dryRun = nbBatch.dryRun,
                                                  !.processed = Append(nbBatch.processed, notebookPath),
                                                  !.filesAtEntry = nbBatch.filesAtEntry,
                                                  !.filesAtReturn = <<notebooks'>>]
                               /\ nbBatch' = NoNbBatch
                               /\ pc' = "idle"
                          ELSE /\ nbBatch' = [nbBatch EXCEPT
                                                !.results = Append(@, r.result),
                                                !.processed = Append(@, notebookPath),
                                                !.writeFailed = @ \/ r.result.error = "Write error",
                                                !.afterCancel = @ \/ token,
                                                !.idx = @ + 1]
                               /\ UNCHANGED <<pc, nbOutcome>>
  /\ UNCHANGED <<fsVars, call, token, batch, batchOutcome, last, infoVars, regVars,
                 frameVars, resolveCall, mirrorVars, uiVars>>

\* one turn of the for loop, lines 188-218, or the summary of lines 220-233
UpdateNotebooksLoop ==
  /\ pc = "nbLoop"
  /\ IF nbBatch.idx > Len(NotebookOrder)
     THEN /\ NbReturn(nbBatch.results, 0)
          /\ UNCHANGED <<notebooks, nbLast>>
     ELSE IF token
     THEN /\ NbReturn(nbBatch.results, nbBatch.idx)
          /\ UNCHANGED <<notebooks, nbLast>>
     ELSE LET notebookPath == NotebookOrder[nbBatch.idx]
              kernelName == resolveKernelForNotebook(notebookPath, KernelOrder)
          IN IF kernelName = Undefined
             THEN /\ nbBatch' = [nbBatch EXCEPT
                                   !.results = Append(@, NotebookUpdateResult(
                                                  notebookPath, << >>, << >>, FALSE,
                                                  "No matching kernel")),
                                   !.idx = @ + 1]
                  /\ UNCHANGED <<pc, nbOutcome, notebooks, nbLast>>
             ELSE \E writeOutcome \in NbWriteOutcomes :
                    LET specName == getKernelSpecName(kernelName, NoVariant)
                        displayName == KernelsConfig[kernelName].display_name
                        r == updateSingleNotebook(notebookPath, notebooks[notebookPath],
                                                  specName, displayName, nbBatch.dryRun,
                                                  writeOutcome)
                    IN /\ notebooks' = [notebooks EXCEPT ![notebookPath] = r.file]
                       /\ nbLast' = UpdateRecord(notebookPath, specName, displayName,
                                                 nbBatch.dryRun, r)
                       /\ IF r.kind = "raised"
                          THEN /\ nbOutcome' = [NoNbOutcome EXCEPT
                                                  !.kind = "raised",
                                                  !.dryRun = nbBatch.dryRun,
                                                  !.processed = Append(nbBatch.processed, notebookPath),
                                                  !.filesAtEntry = nbBatch.filesAtEntry,
                                                  !.filesAtReturn = <<notebooks'>>]
                               /\ nbBatch' = NoNbBatch
                               /\ pc' = "idle"
                          ELSE /\ nbBatch' = [nbBatch EXCEPT
                                                !.results = Append(@, r.result),
                                                !.processed = Append(@, notebookPath),
                                                !.writeFailed = @ \/ r.result.error = "Write error",
                                                !.afterCancel = @ \/ token,
                                                !.idx = @ + 1]
                               /\ UNCHANGED <<pc, nbOutcome>>
  /\ UNCHANGED <<fsVars, call, token, batch, batchOutcome, last, infoVars, regVars,
                 frameVars, resolveCall, mirrorVars, uiVars>>

\* ------------------------------------------------------------------------
\* mirrorDetector
\* ------------------------------------------------------------------------
\* the two callers whose calls may overlap (two setup commands running at once)
Callers == {1, 2}

GEOIP_ENDPOINTS == <<"https://ipapi.co/country/", "https://ifconfig.co/country-iso">>

\* a MirrorInfo, null, or undefined (not yet checked)
MirrorInfo(url, name) == [kind |-> "mirror", url |-> url, name |-> name]
NullMirror == [kind |-> "null", url |-> "", name |-> ""]
NotChecked == [kind |-> "undefined", url |-> "", name |-> ""]

MIRROR_RULES ==
  <<[name |-> "Tsinghua (CN)", url |-> "https://pypi.tuna.tsinghua.edu.cn/simple",
     countries |-> {<<"C", "N">>}],
    [name |-> "NUS (SE Asia)", url |-> "https://mirror.nus.edu.sg/pypi/simple",
     countries |->
      {<<"S", "G">>, <<"M", "Y">>, <<"I", "D">>, <<"P", "H">>, <<"V", "N">>,
       <<"T", "H">>, <<"K", "H">>, <<"L", "A">>, <<"M", "M">>, <<"B", "N">>}],
    [name |-> "Fau (EU)", url |-> "https://ftp.fau.de/python/pypi/simple",
     countries |->
      {<<"D", "E">>, <<"F", "R">>, <<"N", "L">>, <<"B", "E">>, <<"C", "H">>,
       <<"A", "T">>, <<"P", "L">>, <<"C", "Z">>, <<"H", "U">>, <<"I", "T">>,
       <<"E", "S">>, <<"P", "T">>, <<"S", "E">>, <<"N", "O">>, <<"D", "K">>,
       <<"F", "I">>, <<"G", "B">>, <<"U", "K">>, <<"I", "E">>}]>>

\* the values of the pypiMirror setting
MirrorSettings == {"auto", "", "https://pypi.example.org/simple"}

\* what an httpGet can settle with: a rejection ('error' or 'timeout') or the
\* body of the response
HttpResponse(kind, body) == [kind |-> kind, body |-> body]

HttpResponses ==
  {HttpResponse("error", << >>), HttpResponse("timeout", << >>)}
  \cup {HttpResponse("body", b) :
          b \in {<<"c", "n", "\n">>, <<"G", "B">>, <<"U", "S">>, <<"{", "}">>,
                 <<"U", "n", "d", "e", "f", "i", "n", "e", "d">>}}

\* the country code when there is none (null)
NoCode == <<Null>>

\* String.prototype.toUpperCase, character by character
UpperChar(c) ==
  CASE c = "c" -> "C"
    [] c = "n" -> "N"
    [] c = "d" -> "D"
    [] c = "e" -> "E"
    [] c = "f" -> "F"
    [] c = "i" -> "I"
    [] OTHER -> c

toUpperCase(s) == [i \in 1..Len(s) |-> UpperChar(s[i])]

\* String.prototype.trim on a string of characters
TrimChars(s) == TrimStart(TrimEnd(s))

\* resolveMirrorForCountry, lines 94-104: the first rule that has the code
resolveMirrorForCountry(countryCode) ==
  IF countryCode = NoCode THEN NullMirror
  ELSE LET hits == {i \in 1..Len(MIRROR_RULES) : countryCode \in MIRROR_RULES[i].countries}
       IN IF hits = {} THEN NullMirror
          ELSE LET i == CHOOSE j \in hits : \A h \in hits : j <= h
               IN MirrorInfo(MIRROR_RULES[i].url, MIRROR_RULES[i].name)

\* lines 109-113: the code a response is accepted as, NoCode when it is not
AcceptedCode(response) ==
  IF response.kind # "body" THEN NoCode
  ELSE LET trimmed == toUpperCase(TrimChars(response.body))
       IN IF Len(trimmed) = 2 THEN trimmed ELSE NoCode

\* a getPreferredMirror call in flight: the endpoint it is waiting for and
\* the responses it has had
NoMirrorCall == [pc |-> "idle", fn |-> "", setting |-> "", endpoint |-> 0,
                 responses |-> << >>,
                 cacheAtStart |-> NotChecked, resolvedAtStart |-> NotChecked,
                 cleared |-> FALSE]

NoMirrorLast == [fn |-> "none", setting |-> "", kind |-> "none",
                 result |-> NotChecked, args |-> << >>,
                 lookedUp |-> FALSE, responses |-> << >>,
                 cacheAtStart |-> NotChecked, cacheAfter |-> NotChecked,
                 resolvedAtStart |-> NotChecked, cleared |-> FALSE]

\* variant: a mirror is passed by name
MirrorArgsByName(mirror) ==
  IF mirror.kind = "mirror" THEN <<"-i", mirror.name>> ELSE << >>

\* getMirrorArgs, lines 77-83
MirrorArgs(mirror) ==
  IF mirror.kind = "mirror" THEN <<"-i", mirror.url>> ELSE << >>

\* the call of a caller resolves with a mirror or null
MirrorReturn(caller, c, result, lookedUp) ==
  /\ mirrorLast' = [fn |-> c.fn, setting |-> c.setting,
                    kind |-> "resolved", result |-> result,
                    args |-> IF c.fn = "getMirrorArgs" THEN MirrorArgs(result) ELSE << >>,
                    lookedUp |-> lookedUp, responses |-> c.responses,
                    cacheAtStart |-> c.cacheAtStart, cacheAfter |-> cachedMirror',
                    resolvedAtStart |-> c.resolvedAtStart, cleared |-> c.cleared]
  /\ mirrorCall' = [mirrorCall EXCEPT ![caller] = NoMirrorCall]
  /\ mirrorResolved' = IF c.setting = "auto" /\ mirrorResolved = NotChecked /\ ~c.cleared
                       THEN result ELSE mirrorResolved

\* getPreferredMirror, lines 55-68, up to its first await; getMirrorArgs
\* (fn = "getMirrorArgs") calls it and turns its result into pip arguments
GetPreferredMirror(caller, fn) ==
  /\ mirrorCall[caller].pc = "idle"
  /\ LET c == [NoMirrorCall EXCEPT !.fn = fn, !.setting = pypiMirror,
                                   !.cacheAtStart = cachedMirror,
                                   !.resolvedAtStart = mirrorResolved]
     IN IF pypiMirror # "" /\ pypiMirror # "auto"
        THEN /\ UNCHANGED cachedMirror
             /\ MirrorReturn(caller, c, MirrorInfo(pypiMirror, "User setting"), FALSE)
        ELSE IF cachedMirror # NotChecked
        THEN /\ UNCHANGED cachedMirror
             /\ MirrorReturn(caller, c, cachedMirror, FALSE)
        ELSE /\ mirrorCall' = [mirrorCall EXCEPT ![caller] = [c EXCEPT !.pc = "httpGet", !.endpoint = 1]]
             /\ UNCHANGED <<cachedMirror, mirrorLast, mirrorResolved>>
  /\ UNCHANGED <<fsVars, setupVars, infoVars, regVars, frameVars, nbVars, pypiMirror, uiVars>>

\* detectCountryCode, lines 106-119: the httpGet of the current endpoint
\* settles; then lines 69-70 of getPreferredMirror
HttpGetDone(caller) ==
  /\ mirrorCall[caller].pc = "httpGet"
  /\ \E response \in HttpResponses :
       LET c == [mirrorCall[caller] EXCEPT !.responses = Append(@, response)]
           code == AcceptedCode(response)
       IN IF code = NoCode /\ c.endpoint < Len(GEOIP_ENDPOINTS)
          THEN /\ mirrorCall' = [mirrorCall EXCEPT ![caller] = [c EXCEPT !.endpoint = @ + 1]]
               /\ UNCHANGED <<cachedMirror, mirrorLast, mirrorResolved>>
          ELSE /\ cachedMirror' = resolveMirrorForCountry(code)
               /\ MirrorReturn(caller, c, cachedMirror', TRUE)
  /\ UNCHANGED <<fsVars, setupVars, infoVars, regVars, frameVars, nbVars, pypiMirror, uiVars>>

\* clearMirrorCache, lines 88-90
ClearMirrorCache ==
  /\ cachedMirror # NotChecked \/ mirrorResolved # NotChecked
  /\ cachedMirror' = NotChecked
  /\ mirrorResolved' = NotChecked
  /\ mirrorCall' = [c \in Callers |->
                      IF mirrorCall[c].pc = "idle" THEN mirrorCall[c]
                      ELSE [mirrorCall[c] EXCEPT !.cleared = TRUE]]
  /\ UNCHANGED <<fsVars, setupVars, infoVars, regVars, frameVars, nbVars, pypiMirror,
                 mirrorLast, uiVars>>

\* the user edits the pypiMirror setting
ChangeMirrorSetting(setting) ==
  /\ pypiMirror # setting
  /\ pypiMirror' = setting
  /\ mirrorResolved' = NotChecked
  /\ mirrorCall' = [c \in Callers |->
                      IF mirrorCall[c].pc = "idle" THEN mirrorCall[c]
                      ELSE [mirrorCall[c] EXCEPT !.cleared = TRUE]]
  /\ UNCHANGED <<fsVars, setupVars, infoVars, regVars, frameVars, nbVars, cachedMirror,
                 mirrorLast, uiVars>>

\* ------------------------------------------------------------------------
\* kernelConfig: validateConfig and loadKernelsConfig
\* ------------------------------------------------------------------------
\* the values JSON.parse returns, and undefined for a property that is not
\* there; entries are the <<key, value>> pairs of an object in their order,
\* and of an array with its indices as keys
JString(s) == [t |-> "string", s |-> s, entries |-> << >>]
JNumber == [t |-> "number", s |-> "42", entries |-> << >>]
JNull == [t |-> "null", s |-> "", entries |-> << >>]
JUndefined == [t |-> "undefined", s |-> "", entries |-> << >>]
JObject(entries) == [t |-> "object", s |-> "", entries |-> entries]

ArrayIndex == <<"0", "1">>

JArray(items) ==
  [t |-> "array", s |-> "", entries |-> [i \in 1..Len(items) |-> <<ArrayIndex[i], items[i]>>]]

\* the typeof operator: null and arrays are "object"
typeof(v) ==
  CASE v.t = "string" -> "string"
    [] v.t = "number" -> "number"
    [] v.t = "undefined" -> "undefined"
    [] OTHER -> "object"

\* !!v
Truthy(v) ==
  \/ v.t = "string" /\ v.s # ""
  \/ v.t \in {"number", "object", "array"}

\* v[key] of a non-null value
Get(v, key) ==
  LET hits == {i \in 1..Len(v.entries) : v.entries[i][1] = key}
  IN IF hits = {} THEN JUndefined
     ELSE v.entries[CHOOSE i \in hits : \A h \in hits : h <= i][2]

ObjectEntries(v) == v.entries

\* the messages of validateConfig; NoMessage is the null it returns for a
\* valid config
NoMessage == <<Null>>
ConfigMustBeObject == <<"Config must be a JSON object">>
ConfigNeedsKernels == <<"Config must contain a \"kernels\" object">>
KernelMustBeObject(name) == <<"Kernel \"", name, "\" must be an object">>
KernelNeedsDisplayName(name) ==
  <<"Kernel \"", name, "\" must have a non-empty \"display_name\" string">>
FieldMustBeString(name, field) ==
  <<"Kernel \"", name, "\": \"", field, "\" must be a string">>
FieldMustBeObject(name, field) ==
  <<"Kernel \"", name, "\": \"", field, "\" must be an object">>
VariantMustBeObject(name, variantName) ==
  <<"Kernel \"", name, "\", variant \"", variantName, "\" must be an object">>
VariantNeedsRequirementsFile(name, variantName) ==
  <<"Kernel \"", name, "\", variant \"", variantName,
    "\" must have a \"requirements_file\" string">>

\* lines 171-179: the loop over the variants of one kernel
RECURSIVE validateVariants(_, _)
validateVariants(name, entries) ==
  IF entries = << >> THEN NoMessage
  ELSE LET variantName == entries[1][1]
           variant == entries[1][2]
           requirements_file == Get(variant, "requirements_file")
       IN IF typeof(variant) # "object" \/ variant.t = "null"
          THEN VariantMustBeObject(name, variantName)
          ELSE IF typeof(requirements_file) # "string" \/ ~Truthy(requirements_file)
          THEN VariantNeedsRequirementsFile(name, variantName)
          ELSE validateVariants(name, Tail(entries))

\* lines 139-180: the body of the loop over the kernels, for one kernel
validateKernel(name, kernel) ==
  IF typeof(kernel) # "object" \/ kernel.t = "null"
  THEN KernelMustBeObject(name)
  ELSE LET display_name == Get(kernel, "display_name")
           description == Get(kernel, "description")
           requirements_file == Get(kernel, "requirements_file")
           python_version == Get(kernel, "python_version")
           env == Get(kernel, "env")
           variants == Get(kernel, "variants")
       IN IF typeof(display_name) # "string" \/ ~Truthy(display_name)
          THEN KernelNeedsDisplayName(name)
          ELSE IF description.t # "undefined" /\ typeof(description) # "string"
          THEN FieldMustBeString(name, "description")
          ELSE IF requirements_file.t # "undefined" /\ typeof(requirements_file) # "string"
          THEN FieldMustBeString(name, "requirements_file")
          ELSE IF python_version.t # "undefined" /\ typeof(python_version) # "string"
          THEN FieldMustBeString(name, "python_version")
          ELSE IF env.t # "undefined" /\ (typeof(env) # "object" \/ env.t = "null")
          THEN FieldMustBeObject(name, "env")
          ELSE IF variants.t # "undefined"
          THEN IF typeof(variants) # "object" \/ variants.t = "null"
               THEN FieldMustBeObject(name, "variants")
               ELSE validateVariants(name, ObjectEntries(variants))
          ELSE NoMessage

\* lines 138-181: the kernels one after another, the first message returned
RECURSIVE validateKernels(_)
validateKernels(entries) ==
  IF entries = << >> THEN NoMessage
  ELSE LET message == validateKernel(entries[1][1], entries[1][2])
       IN IF message # NoMessage THEN message ELSE validateKernels(Tail(entries))

\* validateConfig, lines 127-184
validateConfig(obj) ==
  IF typeof(obj) # "object" \/ obj.t = "null" THEN ConfigMustBeObject
  ELSE LET kernels == Get(obj, "kernels")
       IN IF ~Truthy(kernels) \/ typeof(kernels) # "object" THEN ConfigNeedsKernels
          ELSE validateKernels(ObjectEntries(kernels))

\* kernel entries: everything a field can be, in every combination
Field(key, value) == IF value = JUndefined THEN << >> ELSE << <<key, value>> >>

VariantsValues ==
  {JUndefined,
   JObject(<< <<"gpu", JObject(<< <<"requirements_file", JString("requirements-gpu.txt")>> >>)>> >>),
   JObject(<< <<"gpu", JObject(<< >>)>> >>),
   JObject(<< <<"cpu", JObject(<< <<"requirements_file", JString("requirements-cpu.txt")>> >>)>>,
              <<"gpu", JString("requirements-gpu.txt")>> >>),
   JArray(<<JObject(<< <<"requirements_file", JString("requirements-gpu.txt")>> >>)>>)}

KernelObjects ==
  {JObject(Field("display_name", display_name) \o Field("description", description)
           \o Field("python_version", python_version) \o Field("env", env)
           \o Field("variants", variants)) :
     display_name \in {JUndefined, JString(""), JString("Python (Common)")},
     description \in {JUndefined, JNumber},
     python_version \in {JUndefined, JNull},
     env \in {JUndefined, JString("A=1"), JObject(<< <<"A", JString("1")>> >>), JArray(<<JString("A=1")>>)},
     variants \in VariantsValues}

KernelValues == KernelObjects \cup {JString("common"), JNull, JArray(<< >>)}

\* the kernels that are combined into configs of two kernels
PairKernels ==
  {JObject(Field("display_name", display_name) \o Field("description", description)
           \o Field("variants", variants)) :
     display_name \in {JUndefined, JString("Python (Common)")},
     description \in {JUndefined, JNumber},
     variants \in {JUndefined, JObject(<< <<"gpu", JObject(<< >>)>> >>)}}

\* the values a kernels.json can parse to
ConfigValues ==
  {JNull, JString("kernels"), JNumber, JArray(<< >>), JObject(<< >>),
   JObject(<< <<"other", JObject(<< >>)>> >>),
   JObject(<< <<"kernels", JString("not-an-object")>> >>),
   JObject(<< <<"kernels", JNull>> >>),
   JObject(<< <<"kernels", JArray(<< >>)>> >>),
   JObject(<< <<"kernels", JObject(<< >>)>> >>)}
  \cup {JObject(<< <<"kernels", JArray(<<k>>)>> >>) : k \in PairKernels}
  \cup {JObject(<< <<"kernels", JObject(<< <<"common", k>> >>)>> >>) : k \in KernelValues}
  \cup {JObject(<< <<"kernels", JObject(<< <<"common", k1>>, <<"pytorch_study", k2>> >>)>> >>) :
          k1 \in PairKernels, k2 \in PairKernels}

\* the call of validateConfig on a value
NoValidate == [called |-> FALSE, obj |-> JUndefined, result |-> NoMessage]

\* the kernels.json of the workspace: missing, unreadable (a directory, no
\* permission), or a text; a text is malformed or parses to a value
ConfigFile(state, parsed) == [state |-> state, parsed |-> parsed]

ConfigFiles ==
  {ConfigFile("missing", JUndefined), ConfigFile("unreadable", JUndefined),
   ConfigFile("malformed", JUndefined)}
  \cup {ConfigFile("json", v) : v \in ConfigValues}

\* a ConfigLoadResult; config is JNull when there is none, error is
\* NoMessage when there is none, filePath is set or not
ConfigLoadResult(config, error, filePath) ==
  [config |-> config, error |-> error, filePath |-> filePath]

NoLoad == [kind |-> "none", result |-> ConfigLoadResult(JNull, NoMessage, FALSE),
           workspaceOpen |-> FALSE, file |-> ConfigFile("missing", JUndefined),
           fileAfter |-> ConfigFile("missing", JUndefined)]

\* variant: a text that does not parse is reported as a read failure
loadKernelsConfigNoSyntaxCase(open, file) ==
  IF ~open THEN ConfigLoadResult(JNull, <<"No workspace folder open">>, FALSE)
  ELSE IF file.state = "missing"
  THEN ConfigLoadResult(JNull, <<"kernels.json not found">>, TRUE)
  ELSE IF file.state \in {"unreadable", "malformed"}
  THEN ConfigLoadResult(JNull, <<"Failed to read config: ", "<message>">>, TRUE)
  ELSE LET validationError == validateConfig(file.parsed)
       IN IF validationError # NoMessage
          THEN ConfigLoadResult(JNull, validationError, TRUE)
          ELSE ConfigLoadResult(file.parsed, NoMessage, TRUE)

\* loadKernelsConfig, lines 97-121
loadKernelsConfig(open, file) ==
  IF ~open THEN ConfigLoadResult(JNull, <<"No workspace folder open">>, FALSE)
  ELSE IF file.state = "missing"
  THEN ConfigLoadResult(JNull, <<"kernels.json not found">>, TRUE)
  ELSE IF file.state = "unreadable"
  THEN ConfigLoadResult(JNull, <<"Failed to read config: ", "<message>">>, TRUE)
  ELSE IF file.state = "malformed"
  THEN ConfigLoadResult(JNull, <<"Invalid JSON: ", "<message>">>, TRUE)
  ELSE LET validationError == validateConfig(file.parsed)
       IN IF validationError # NoMessage
          THEN ConfigLoadResult(JNull, validationError, TRUE)
          ELSE ConfigLoadResult(file.parsed, NoMessage, TRUE)

\* validateConfig applied to what the file parses to
ValidateConfig ==
  /\ ~validateCall.called
  /\ configFile.state = "json"
  /\ validateCall' = [called |-> TRUE, obj |-> configFile.parsed,
                      result |-> validateConfig(configFile.parsed)]
  /\ UNCHANGED <<fsVars, setupVars, infoVars, regVars, frameVars, nbVars, mirrorVars,
                 configFile, loadLast, pathVars, sbVars, viewVars>>

LoadKernelsConfig ==
  /\ loadLast.kind = "none"
  /\ UNCHANGED configFile
  /\ loadLast' = [kind |-> "returned", result |-> loadKernelsConfig(workspaceOpen, configFile),
                  workspaceOpen |-> workspaceOpen, file |-> configFile,
                  fileAfter |-> configFile']
  /\ UNCHANGED <<fsVars, setupVars, infoVars, regVars, frameVars, nbVars, mirrorVars,
                 validateCall, pathVars, sbVars, viewVars>>

\* ------------------------------------------------------------------------
\* getRequirementsPath and computeFileHash called on their own
\* ------------------------------------------------------------------------
\* the variants objects of the definitions getRequirementsPath is called with
VariantTables ==
  {[v \in {} |-> [display_name |-> Undefined, requirements_file |-> ""]],
   [v \in {"gpu"} |-> [display_name |-> "GPU variant",
                       requirements_file |-> "requirements-gpu.txt"]],
   [v \in {"cpu", "gpu"} |->
      IF v = "gpu"
      THEN [display_name |-> "GPU variant", requirements_file |-> "requirements-gpu.txt"]
      ELSE [display_name |-> Undefined, requirements_file |-> "requirements-cpu.txt"]]}

Definitions ==
  {[display_name |-> "Test", requirements_file |-> requirements_file,
    env |-> [x \in {} |-> ""], variants |-> variants] :
     requirements_file \in {Undefined, "reqs.txt"}, variants \in VariantTables}

\* the variant argument: left out, empty, a name a definition may define, a
\* name no definition defines, and names every object inherits
VariantNames == {NoVariant, "", "gpu", "cpu", "tpu", "constructor", "toString"}

\* getRequirementsPath returns undefined when no workspace is open
NoPath == <<Undefined, Undefined>>

NoReqPath == [called |-> FALSE, kernelName |-> "", variant |-> NoVariant,
              definition |-> [display_name |-> "Test", requirements_file |-> Undefined,
                              env |-> [x \in {} |-> ""],
                              variants |-> [v \in {} |-> [display_name |-> Undefined,
                                                          requirements_file |-> ""]]],
              result |-> NoPath]

\* getRequirementsPath(kernelName, definition, variant), lines 38-54
GetRequirementsPath ==
  /\ ~reqPathCall.called
  /\ reqPathCall.kernelName # ""
  /\ reqPathCall' =
       [reqPathCall EXCEPT
          !.called = TRUE,
          !.result = IF ~workspaceOpen THEN NoPath
                     ELSE getRequirementsPath(reqPathCall.kernelName,
                                              reqPathCall.definition,
                                              reqPathCall.variant)]
  /\ UNCHANGED <<fsVars, setupVars, infoVars, regVars, frameVars, nbVars, mirrorVars,
                 cfgVars, hashCall, sbVars, viewVars>>

NoHash == [called |-> FALSE, path |-> <<"", "">>, content |-> NoFile, result |-> ""]

\* computeFileHash(filePath), hashTracker.ts lines 11-14
ComputeFileHash(path) ==
  /\ ~hashCall.called
  /\ hashCall' = [called |-> TRUE, path |-> path, content |-> req[path],
                  result |-> computeFileHash(req[path])]
  /\ UNCHANGED <<fsVars, setupVars, infoVars, regVars, frameVars, nbVars, mirrorVars,
                 cfgVars, reqPathCall, sbVars, viewVars>>

\* ------------------------------------------------------------------------
\* statusBar: KernelStatusBar.update
\* ------------------------------------------------------------------------
\* the update() calls that can be in flight at once
MaxUpdates == 3

UpdateIds == 1..MaxUpdates

\* vscode.window.activeNotebookEditor: << >> when there is none, otherwise
\* <<name>> with the kernelspec name in the notebook's metadata ("" for none)
NoEditor == << >>

NotebookEditors == {<<"py-learn-common">>, <<"python3">>, <<"">>}

\* the status bar item: created hidden
StatusBarItem(visible, text) == [visible |-> visible, text |-> text]

NoUpdateCall == [pc |-> "idle", editor |-> NoEditor]

\* a kernels.json that loads
LoadableConfig ==
  ConfigFile("json",
    JObject(<< <<"kernels",
       JObject(<< <<"common", JObject(<< <<"display_name", JString("Python (Common)")>> >>)>>,
                  <<"pytorch_study", JObject(<< <<"display_name", JString("PyTorch Study")>> >>)>> >>)>> >>))

\* item.hide()
Hide(item) == [item EXCEPT !.visible = FALSE]

\* lines 50-57 of update(): hide and return when no notebook editor is
\* active, otherwise start loading the config; the call takes the first
\* free slot
UpdateBegin ==
  IF activeNotebook' = NoEditor
  THEN /\ sbItem' = Hide(sbItem)
       /\ UNCHANGED sbUpdates
  ELSE /\ \E u \in UpdateIds : sbUpdates[u].pc = "idle"
       /\ LET u == CHOOSE i \in UpdateIds :
                     /\ sbUpdates[i].pc = "idle"
                     /\ \A j \in UpdateIds : sbUpdates[j].pc = "idle" => i <= j
          IN sbUpdates' = [sbUpdates EXCEPT ![u] = [pc |-> "loadConfig",
                                                    editor |-> activeNotebook']]
       /\ UNCHANGED sbItem

\* constructor, lines 26-28: the active notebook editor changes
ChangeActiveNotebookEditor(editor) ==
  /\ activeNotebook # editor
  /\ activeNotebook' = editor
  /\ UpdateBegin
  /\ UNCHANGED <<fsVars, setupVars, infoVars, regVars, frameVars, nbVars, mirrorVars,
                 cfgVars, pathVars, viewVars>>

\* constructor, lines 22-24: the active text editor changes
ChangeActiveTextEditor ==
  /\ UNCHANGED activeNotebook
  /\ UpdateBegin
  /\ UNCHANGED <<fsVars, setupVars, infoVars, regVars, frameVars, nbVars, mirrorVars,
                 cfgVars, pathVars, viewVars>>

\* lines 57-61: loadKernelsConfig has settled
UpdateConfigLoaded(u) ==
  /\ sbUpdates[u].pc = "loadConfig"
  /\ LET configResult == loadKernelsConfig(workspaceOpen, configFile)
     IN IF configResult.config = JNull
        THEN /\ sbItem' = Hide(sbItem)
             /\ sbUpdates' = [sbUpdates EXCEPT ![u] = NoUpdateCall]
        ELSE /\ sbUpdates' = [sbUpdates EXCEPT ![u].pc = "getKernelInfoList"]
             /\ UNCHANGED sbItem
  /\ UNCHANGED <<fsVars, setupVars, infoVars, regVars, frameVars, nbVars, mirrorVars,
                 cfgVars, pathVars, viewVars, activeNotebook>>

\* lines 63-82: getKernelInfoList has settled; the text is set for the
\* editor the call started with and the item is shown
UpdateKernelsListed(u) ==
  /\ sbUpdates[u].pc = "getKernelInfoList"
  /\ LET notebookKernel == sbUpdates[u].editor[1]
         names == ObjectEntries(Get(configFile.parsed, "kernels"))
         matched == {i \in 1..Len(names) :
                       getKernelSpecName(names[i][1], NoVariant) = Chars(notebookKernel)}
         text == IF matched # {}
                 THEN <<"$(status)", names[CHOOSE i \in matched : \A j \in matched : i <= j][1]>>
                 ELSE IF notebookKernel # ""
                 THEN <<"$(notebook)", notebookKernel>>
                 ELSE <<"$(notebook)", "No kernel">>
     IN sbItem' = StatusBarItem(TRUE, text)
  /\ sbUpdates' = [sbUpdates EXCEPT ![u] = NoUpdateCall]
  /\ UNCHANGED <<fsVars, setupVars, infoVars, regVars, frameVars, nbVars, mirrorVars,
                 cfgVars, pathVars, viewVars, activeNotebook>>

\* ------------------------------------------------------------------------
\* treeView: KernelTreeDataProvider
\* ------------------------------------------------------------------------
\* the refresh() calls that can be in flight at once, and the number of
\* outside triggers (view shown, config changed, Refresh command) of a session
MaxRefreshes == 2
MaxTriggers == 2

RefreshIds == 1..MaxRefreshes

\* a valid config that defines no kernel
EmptyConfig == ConfigFile("json", JObject(<< <<"kernels", JObject(<< >>)>> >>))

\* the kernels.json files the tree view is shown
TreeConfigs ==
  {ConfigFile("missing", JUndefined), ConfigFile("malformed", JUndefined),
   LoadableConfig, EmptyConfig}

\* a refresh() call: where it is, and what its loadKernelsConfig returned
NoRefresh == [pc |-> "idle", result |-> ConfigLoadResult(JNull, NoMessage, FALSE)]

\* the provider: kernelInfos (the kernels' names), configError (NoMessage for
\* undefined), the refresh() calls, whether the view is shown and VS Code is
\* about to ask for the root's children; lastStarted is the refresh() call
\* that started last, triggers the number of outside triggers so far
NoTree ==
  [kernelInfos |-> << >>, configError |-> NoMessage,
   refreshes |-> [r \in RefreshIds |-> NoRefresh],
   visible |-> FALSE, pendingGetChildren |-> FALSE,
   lastStarted |-> 0, triggers |-> 0]

\* Object.keys(config.kernels), one KernelInfo per name
KernelInfoNames(config) ==
  [i \in 1..Len(Get(config, "kernels").entries) |-> Get(config, "kernels").entries[i][1]]

\* _onDidChangeTreeData.fire(undefined): a shown view asks for the root's
\* children again
Fire(t) == [t EXCEPT !.pendingGetChildren = t.visible]

\* refresh() is called, line 24
RefreshBegin(t, r) ==
  [t EXCEPT !.refreshes[r] = [NoRefresh EXCEPT !.pc = "loadConfig"],
            !.lastStarted = r]

\* lines 25-33 for a call whose config is loaded: the fields are assigned and
\* the event is fired
RefreshAssign(t, result) ==
  Fire([t EXCEPT !.kernelInfos = IF result.config # JNull
                                  THEN KernelInfoNames(result.config) ELSE << >>,
                 !.configError = IF result.config # JNull
                                 THEN NoMessage ELSE result.error])

\* the view is shown: VS Code asks for the root's children
ShowView ==
  /\ ~tree.visible
  /\ tree.triggers < MaxTriggers
  /\ tree' = [tree EXCEPT !.visible = TRUE, !.pendingGetChildren = TRUE,
                          !.triggers = @ + 1]
  /\ UNCHANGED <<fsVars, setupVars, infoVars, regVars, frameVars, nbVars, mirrorVars,
                 cfgVars, pathVars, sbVars, cmd>>

\* getChildren(undefined), lines 51-54: with no kernels and no error the
\* provider refreshes itself
GetChildren(r) ==
  /\ tree.pendingGetChildren
  /\ IF tree.kernelInfos = << >> /\ tree.configError = NoMessage
     THEN /\ tree.refreshes[r].pc = "idle"
          /\ tree' = RefreshBegin([tree EXCEPT !.pendingGetChildren = FALSE], r)
     ELSE /\ r = 1
          /\ tree' = [tree EXCEPT !.pendingGetChildren = FALSE]
  /\ UNCHANGED <<fsVars, setupVars, infoVars, regVars, frameVars, nbVars, mirrorVars,
                 cfgVars, pathVars, sbVars, cmd>>

\* extension.ts, lines 29-34: kernels.json changes and the watcher refreshes
\* the tree
ChangeConfig(file, r) ==
  /\ tree.triggers < MaxTriggers
  /\ file # configFile
  /\ tree.refreshes[r].pc = "idle"
  /\ configFile' = file
  /\ tree' = RefreshBegin([tree EXCEPT !.triggers = @ + 1], r)
  /\ UNCHANGED <<fsVars, setupVars, infoVars, regVars, frameVars, nbVars, mirrorVars,
                 validateCall, loadLast, pathVars, sbVars, cmd>>

\* the Refresh command, commands.ts lines 108-112
RefreshCommand(r) ==
  /\ tree.triggers < MaxTriggers
  /\ tree.refreshes[r].pc = "idle"
  /\ tree' = RefreshBegin([tree EXCEPT !.triggers = @ + 1], r)
  /\ UNCHANGED <<fsVars, setupVars, infoVars, regVars, frameVars, nbVars, mirrorVars,
                 cfgVars, pathVars, sbVars, cmd>>

\* line 25: loadKernelsConfig resolves with the file as it is now; without a
\* config the fields are assigned and the event is fired (lines 29-33)
RefreshConfigLoaded(r) ==
  /\ tree.refreshes[r].pc = "loadConfig"
  /\ LET result == loadKernelsConfig(workspaceOpen, configFile)
     IN tree' = IF result.config # JNull
                THEN [tree EXCEPT !.refreshes[r] = [pc |-> "listKernels", result |-> result]]
                ELSE RefreshAssign([tree EXCEPT !.refreshes[r] =
                                      [pc |-> "idle", result |-> result]], result)
  /\ UNCHANGED <<fsVars, setupVars, infoVars, regVars, frameVars, nbVars, mirrorVars,
                 cfgVars, pathVars, sbVars, cmd>>

\* lines 26-28 and 33: getKernelInfoList resolves, the fields are assigned
\* and the event is fired
RefreshKernelsListed(r) ==
  /\ tree.refreshes[r].pc = "listKernels"
  /\ tree' = RefreshAssign([tree EXCEPT !.refreshes[r].pc = "idle"],
                           tree.refreshes[r].result)
  /\ UNCHANGED <<fsVars, setupVars, infoVars, regVars, frameVars, nbVars, mirrorVars,
                 cfgVars, pathVars, sbVars, cmd>>

\* ------------------------------------------------------------------------
\* commands: Setup All Kernels
\* ------------------------------------------------------------------------
\* the command: its phase, the autoRegister setting it read, the results of
\* its setup loop, its position in successfulKernels, the kernels
\* registerKernel was called for, and the message it showed
NoCmd == [phase |-> "none", autoRegister |-> FALSE, results |-> << >>,
          regIdx |-> 0, registered |-> << >>, cancelled |-> FALSE,
          message |-> ""]

\* results.filter(r => r.success), by kernel name
RECURSIVE SuccessfulKernels(_)
SuccessfulKernels(results) ==
  IF results = << >> THEN << >>
  ELSE (IF results[1].success THEN <<results[1].kernelName>> ELSE << >>)
         \o SuccessfulKernels(Tail(results))

\* lines 117-134: the config is loaded and the progress notification opens
\* with a fresh token
SetupAllKernelsCommand(autoRegister) ==
  /\ pc = "idle"
  /\ loadKernelsConfig(workspaceOpen, configFile).config # JNull
  /\ token' = FALSE
  /\ batch' = [active |-> TRUE, command |-> TRUE, force |-> FALSE, idx |-> 1,
               results |-> << >>, attempted |-> << >>]
  /\ cmd' = [NoCmd EXCEPT !.phase = "setup", !.autoRegister = autoRegister]
  /\ pc' = "cmdLoop"
  /\ UNCHANGED <<fsVars, call, batchOutcome, last, infoVars, regVars, frameVars,
                 nbVars, mirrorVars, cfgVars, pathVars, sbVars, tree>>

\* one turn of the setup loop, lines 135-144
CommandSetupLoop ==
  /\ pc = "cmdLoop"
  /\ IF batch.idx > Len(KernelOrder) \/ token
     THEN /\ cmd' = [cmd EXCEPT !.phase = "register", !.results = batch.results,
                                !.regIdx = 1]
          /\ batch' = NoBatch
          /\ pc' = "cmdRegister"
          /\ UNCHANGED <<venv, marker, call, last, batchOutcome>>
     ELSE /\ Begin(KernelOrder[batch.idx], FALSE, NoVariant,
                   [batch EXCEPT !.attempted = Append(@, KernelOrder[batch.idx])])
          /\ UNCHANGED cmd
  /\ infoFresh' = (infoFresh /\ venv' = venv /\ marker' = marker)
  /\ UNCHANGED <<kernelDir, req, edits, token, infoList, regVars, frameVars,
                 nbVars, mirrorVars, cfgVars, pathVars, sbVars, tree>>

\* lines 147-167: one turn of the registration loop; after it the tree is
\* refreshed and the summary is shown
CommandRegisterLoop ==
  /\ pc = "cmdRegister"
  /\ LET successful == SuccessfulKernels(cmd.results)
         failed == Len(cmd.results) - Len(successful)
     IN IF cmd.autoRegister /\ cmd.regIdx <= Len(successful) /\ ~token
        THEN /\ registerKernel(successful[cmd.regIdx], NoVariant)
             /\ cmd' = [cmd EXCEPT !.regIdx = @ + 1,
                                   !.registered = Append(@, successful[cmd.regIdx])]
             /\ UNCHANGED <<pc, tree>>
        ELSE /\ cmd' = [cmd EXCEPT
                          !.phase = "done", !.cancelled = token,
                          !.message = IF failed > 0 THEN "succeeded, failed"
                                      ELSE IF cmd.autoRegister
                                      THEN "set up and registered successfully"
                                      ELSE "set up successfully"]
             /\ tree' = RefreshAssign(tree, loadKernelsConfig(workspaceOpen, configFile))
             /\ pc' = "idle"
             /\ UNCHANGED <<shared, local, regLast>>
  /\ UNCHANGED <<fsVars, call, token, batch, batchOutcome, last, infoVars, regBatch,
                 regOutcome, frameVars, nbVars, mirrorVars, cfgVars, pathVars, sbVars>>

\* the config loader, the path helpers, the status bar, the tree view and the
\* Setup All Kernels command in a session that does not use them
InitUi ==
  /\ configFile = ConfigFile("missing", JUndefined)
  /\ validateCall = NoValidate
  /\ loadLast = NoLoad
  /\ reqPathCall = NoReqPath
  /\ hashCall = NoHash
  /\ activeNotebook = NoEditor
  /\ sbItem = StatusBarItem(FALSE, <<"", "">>)
  /\ sbUpdates = [u \in UpdateIds |-> NoUpdateCall]
  /\ cmd = NoCmd
  /\ tree = NoTree

\* ------------------------------------------------------------------------
\* Specification of the provisioning engine
\* ------------------------------------------------------------------------
InitSetup ==
  /\ workspaceOpen \in BOOLEAN
  /\ platform = "linux"
  /\ kernelDir \in {[k \in KernelNames |-> TRUE],
                    [k \in KernelNames |-> k # KernelOrder[Len(KernelOrder)]]}
  /\ venv = [k \in KernelNames |-> "absent"]
  /\ marker = [k \in KernelNames |-> NoMarker]
  /\ req = [p \in ReqPaths |-> "numpy\n"]
  /\ edits = 0
  /\ pc = "idle"
  /\ call = NoCall
  /\ token = FALSE
  /\ batch = NoBatch
  /\ batchOutcome = NoOutcome
  /\ last = NoLast
  /\ infoList = << >>
  /\ infoFresh = FALSE
  /\ fresh = NoFresh
  /\ shared = [n \in SpecNames |-> AbsentDir]
  /\ local = [n \in SpecNames |-> AbsentDir]
  /\ regLast = NoReg
  /\ regBatch = NoRegBatch
  /\ regOutcome = NoRegOutcome
  /\ resolveCall = NoResolve
  /\ notebooks = [p \in NotebookFiles |-> NoNotebook]
  /\ nbLast = NoUpdate
  /\ nbBatch = NoNbBatch
  /\ nbOutcome = NoNbOutcome
  /\ pypiMirror = "auto"
  /\ cachedMirror = NotChecked
  /\ mirrorCall = [c \in Callers |-> NoMirrorCall]
  /\ mirrorLast = NoMirrorLast
  /\ mirrorResolved = NotChecked
  /\ InitUi

Init == InitSetup

\* the Setup Kernel command, run any number of times, with the specifier
\* files edited and the command cancelled at any point
Next ==
  \/ \E k \in SetupTargets, force \in BOOLEAN, variant \in VariantArgs :
       SetupKernel(k, force, variant)
  \/ CreateVenvDone
  \/ SnapshotHash
  \/ InstallRequirementsBegin
  \/ PipUpgradeDone
  \/ PipInstallDone
  \/ \E p \in {q \in ReqPaths : q[1] \in SetupTargets}, c \in Contents \cup {NoFile} :
       EditRequirements(p, c)
  \/ Cancel

Spec == Init /\ [][Next]_vars

\* setupAllKernels over the whole config, run any number of times
NextBatch ==
  \/ \E force \in BOOLEAN : SetupAllKernels(force)
  \/ SetupAllLoop
  \/ CreateVenvDone
  \/ SnapshotHash
  \/ InstallRequirementsBegin
  \/ PipUpgradeDone
  \/ PipInstallDone
  \/ Cancel

SpecBatch == Init /\ [][NextBatch]_vars

Launched(r, process) == \E i \in 1..Len(r.launched) : r.launched[i] = process

BasePath(kernelName) ==
  getRequirementsPath(kernelName, KernelsConfig[kernelName], NoVariant)

\* the status query and the freshness check over every filesystem state a
\* workspace can be found in
MarkerTexts ==
  {<<MD5[c]>> : c \in Contents} \cup {<<MD5["numpy\n"], "\n">>, <<"oldhash">>}

InitInfo ==
  /\ workspaceOpen \in BOOLEAN
  /\ platform = "linux"
  /\ kernelDir = [k \in KernelNames |-> TRUE]
  /\ venv \in [KernelNames -> {"absent", "broken", "valid"}]
  /\ workspaceOpen \/ venv = [k \in KernelNames |-> "absent"]
  /\ marker \in [KernelNames ->
                   {NoMarker} \cup {[exists |-> TRUE, text |-> t] : t \in MarkerTexts}]
  /\ \A k \in KernelNames :
       /\ venv[k] = "absent" => marker[k] = NoMarker
       /\ k \notin SetupTargets => marker[k] = NoMarker
  /\ req \in [ReqPaths -> Contents \cup {NoFile}]
  /\ \A p \in ReqPaths : p[1] \notin SetupTargets => req[p] = "numpy\n"
  /\ edits = 0
  /\ pc = "idle"
  /\ call = NoCall
  /\ token = FALSE
  /\ batch = NoBatch
  /\ batchOutcome = NoOutcome
  /\ last = NoLast
  /\ infoList = << >>
  /\ infoFresh = FALSE
  /\ fresh = NoFresh
  /\ shared = [n \in SpecNames |-> AbsentDir]
  /\ local = [n \in SpecNames |-> AbsentDir]
  /\ regLast = NoReg
  /\ regBatch = NoRegBatch
  /\ regOutcome = NoRegOutcome
  /\ resolveCall = NoResolve
  /\ notebooks = [p \in NotebookFiles |-> NoNotebook]
  /\ nbLast = NoUpdate
  /\ nbBatch = NoNbBatch
  /\ nbOutcome = NoNbOutcome
  /\ pypiMirror = "auto"
  /\ cachedMirror = NotChecked
  /\ mirrorCall = [c \in Callers |-> NoMirrorCall]
  /\ mirrorLast = NoMirrorLast
  /\ mirrorResolved = NotChecked
  /\ InitUi

NextInfo ==
  \/ GetKernelInfoList
  \/ \E k \in SetupTargets, variant \in VariantArgs : CheckFreshness(k, variant)
  \/ \E p \in {q \in ReqPaths : q[1] \in SetupTargets}, c \in Contents \cup {NoFile} :
       EditRequirements(p, c)

SpecInfo == InitInfo /\ [][NextInfo]_vars

\* ------------------------------------------------------------------------
\* Properties of getKernelInfoList and checkFreshness
\* ------------------------------------------------------------------------
MarkerMatches(m, content) ==
  /\ m.exists
  /\ content # NoFile
  /\ Trim(m.text) = MD5[content]

\* the status the documented rules give a kernel in the current filesystem
StatusByRule(name, status) ==
  LET m == marker[name]
      content == req[BasePath(name)]
  IN /\ status \in {"notSetUp", "error", "ready", "needsUpdate"}
     /\ venv[name] = "absent" => status = "notSetUp"
     /\ venv[name] = "broken" => status = "error"
     /\ (venv[name] = "valid" /\ (content = NoFile \/ MarkerMatches(m, content)))
          => status = "ready"
     /\ (venv[name] = "valid" /\ content # NoFile /\ ~MarkerMatches(m, content))
          => status = "needsUpdate"

InfoListByRule ==
  /\ Len(infoList) = Len(KernelOrder)
  /\ \A i \in 1..Len(KernelOrder) :
       /\ infoList[i].name = KernelOrder[i]
       /\ StatusByRule(KernelOrder[i], infoList[i].status)

InitReg ==
  /\ workspaceOpen \in BOOLEAN
  /\ platform \in {"linux", "win32"}
  /\ kernelDir = [k \in KernelNames |-> TRUE]
  /\ venv \in [KernelNames -> {"absent", "broken", "valid"}]
  /\ marker = [k \in KernelNames |-> NoMarker]
  /\ req = [p \in ReqPaths |-> "numpy\n"]
  /\ edits = 0
  /\ pc = "idle"
  /\ call = NoCall
  /\ token = FALSE
  /\ batch = NoBatch
  /\ batchOutcome = NoOutcome
  /\ last = NoLast
  /\ infoList = << >>
  /\ infoFresh = FALSE
  /\ fresh = NoFresh
  /\ shared = [n \in SpecNames |-> AbsentDir]
  /\ local = [n \in SpecNames |-> AbsentDir]
  /\ regLast = NoReg
  /\ regBatch = NoRegBatch
  /\ regOutcome = NoRegOutcome
  /\ resolveCall = NoResolve
  /\ notebooks = [p \in NotebookFiles |-> NoNotebook]
  /\ nbLast = NoUpdate
  /\ nbBatch = NoNbBatch
  /\ nbOutcome = NoNbOutcome
  /\ pypiMirror = "auto"
  /\ cachedMirror = NotChecked
  /\ mirrorCall = [c \in Callers |-> NoMirrorCall]
  /\ mirrorLast = NoMirrorLast
  /\ mirrorResolved = NotChecked
  /\ InitUi

NextReg ==
  \/ \E t \in RegTargets : RegisterKernel(t[1], t[2])
  \/ \E t \in RegTargets : UnregisterKernel(t[1], t[2])

SpecReg == InitReg /\ [][NextReg]_vars

\* ------------------------------------------------------------------------
\* Properties of registerKernel and unregisterKernel
\* ------------------------------------------------------------------------
\* C6: registerKernel on a kernel whose environment has no valid interpreter
\* fails and creates or modifies nothing under the shared registration root
\* or the project-local location; isKernelRegistered keeps its value.
C6_RegisterNeedsValidEnvironment ==
  (regLast.op = "register" /\ ~regLast.venvValid) =>
    /\ ~regLast.success
    /\ ~regLast.changed
    /\ regLast.registered = regLast.wasRegistered

C6_Witness ==
  /\ regLast.op = "register"
  /\ ~regLast.venvValid
  /\ regLast.message = "Venv not found"
  /\ venv[regLast.kernelName] = "broken"
  /\ \E t \in RegTargets : isKernelRegistered(t[1], t[2])

NotFoundUnchanged ==
  /\ ~regLast.success
  /\ regLast.message = "Kernelspec not found"
  /\ ~regLast.changed

RemovedAndUnregistered ==
  /\ regLast.success
  /\ ~regLast.dirAfter
  /\ ~regLast.registered

\* C7 as stated: unregisterKernel returns the not-found failure and changes
\* nothing when the spec directory is absent; otherwise it removes the
\* directory and returns success, after which the kernel is not registered
\* and a second unregisterKernel returns the not-found failure.
C7_UnregisterRemovesOrNotFound ==
  regLast.op = "unregister" =>
    /\ ~regLast.dirBefore => NotFoundUnchanged
    /\ regLast.dirBefore => RemovedAndUnregistered
    /\ regLast.afterUnregister => NotFoundUnchanged

\* C7 amended: with the directory present, unregisterKernel either removes it
\* and returns success, or - when the removal itself fails - returns a
\* 'Failed to remove' failure.
C7_UnregisterRemovesFailsOrNotFound ==
  regLast.op = "unregister" =>
    /\ ~regLast.dirBefore => NotFoundUnchanged
    /\ regLast.dirBefore =>
         \/ RemovedAndUnregistered
         \/ ~regLast.success /\ regLast.message = "Failed to remove"
    /\ regLast.afterUnregister => NotFoundUnchanged

C7_Witness ==
  /\ regLast.op = "unregister"
  /\ regLast.afterUnregister
  /\ NotFoundUnchanged

\* C38: unregisterKernel returns success only if isKernelRegistered was true
\* immediately before the call, and returns the not-found failure whenever
\* it was false.
C38_UnregisterAgreesWithIsRegistered ==
  regLast.op = "unregister" =>
    /\ regLast.success => regLast.wasRegistered
    /\ ~regLast.wasRegistered =>
         /\ ~regLast.success
         /\ regLast.message = "Kernelspec not found"

\* ------------------------------------------------------------------------
\* Specification and properties of registerAllKernels
\* ------------------------------------------------------------------------
NextRegAll ==
  \/ \E kernels \in RegConfigs, cancelled \in BOOLEAN : RegisterAllKernels(kernels, cancelled)
  \/ RegisterAllLoop
  \/ Cancel

SpecRegAll == InitReg /\ [][NextRegAll]_vars

SubSeqTo(seq, n) == [j \in 1..n |-> seq[j]]

\* the list returned when the turn of kernel i found the token cancelled
CancelledAt(o, i) ==
  /\ o.invoked = SubSeqTo(o.kernels, i - 1)
  /\ o.results = Append(o.returned,
                        RegistrationResult(FALSE, o.kernels[i], << >>, "Cancelled"))
  /\ Len(o.returned) = i - 1
  /\ \A j \in 1..(i - 1) : o.returned[j].kernelName = o.kernels[j]

\* C11 as stated: when cancellation is observed before kernel i, the list is
\* the results of kernels 1..i-1 followed by one 'Cancelled' failure entry and
\* registerKernel is invoked on no kernel from i on; when cancellation is
\* already requested at entry the list is a single 'Cancelled' entry and
\* nothing is registered.
C11_CancelledEntryEndsTheList ==
  regOutcome.kind = "returned" =>
    /\ regOutcome.observedAt > 0 => CancelledAt(regOutcome, regOutcome.observedAt)
    /\ regOutcome.cancelledAtEntry =>
         /\ Len(regOutcome.results) = 1
         /\ regOutcome.results[1].message = "Cancelled"
         /\ ~regOutcome.results[1].success
         /\ regOutcome.invoked = << >>

\* C11 amended: the single 'Cancelled' entry at entry needs a config with at
\* least one kernel; an empty config returns the empty list.
C11_CancelledEntryEndsTheListUnlessEmpty ==
  regOutcome.kind = "returned" =>
    /\ regOutcome.observedAt > 0 => CancelledAt(regOutcome, regOutcome.observedAt)
    /\ regOutcome.observedAt = 0 =>
         /\ regOutcome.results = regOutcome.returned
         /\ regOutcome.invoked = regOutcome.kernels
    /\ regOutcome.cancelledAtEntry =>
         /\ regOutcome.invoked = << >>
         /\ IF regOutcome.kernels = << >>
            THEN regOutcome.results = << >>
            ELSE /\ Len(regOutcome.results) = 1
                 /\ regOutcome.results[1].message = "Cancelled"
                 /\ ~regOutcome.results[1].success
                 /\ regOutcome.observedAt = 1

C11_Witness ==
  /\ regOutcome.kind = "returned"
  /\ regOutcome.observedAt = 2
  /\ ~regOutcome.cancelledAtEntry
  /\ Len(regOutcome.results) = 2
  /\ regOutcome.results[1].success
  /\ regOutcome.results[2].message = "Cancelled"
  /\ ~isKernelRegistered("pytorch_study", NoVariant)

\* ------------------------------------------------------------------------
\* Specification and properties of resolveKernelForNotebook
\* ------------------------------------------------------------------------
InitResolve ==
  /\ workspaceOpen = TRUE
  /\ platform = "linux"
  /\ kernelDir = [k \in KernelNames |-> TRUE]
  /\ venv = [k \in KernelNames |-> "absent"]
  /\ marker = [k \in KernelNames |-> NoMarker]
  /\ req = [p \in ReqPaths |-> "numpy\n"]
  /\ edits = 0
  /\ pc = "idle"
  /\ call = NoCall
  /\ token = FALSE
  /\ batch = NoBatch
  /\ batchOutcome = NoOutcome
  /\ last = NoLast
  /\ infoList = << >>
  /\ infoFresh = FALSE
  /\ fresh = NoFresh
  /\ shared = [n \in SpecNames |-> AbsentDir]
  /\ local = [n \in SpecNames |-> AbsentDir]
  /\ regLast = NoReg
  /\ regBatch = NoRegBatch
  /\ regOutcome = NoRegOutcome
  /\ \E notebookRelPath \in NotebookPaths, kernelNames \in NameLists :
       resolveCall = [NoResolve EXCEPT !.notebookRelPath = notebookRelPath,
                                       !.kernelNames = kernelNames]
  /\ notebooks = [p \in NotebookFiles |-> NoNotebook]
  /\ nbLast = NoUpdate
  /\ nbBatch = NoNbBatch
  /\ nbOutcome = NoNbOutcome
  /\ pypiMirror = "auto"
  /\ cachedMirror = NotChecked
  /\ mirrorCall = [c \in Callers |-> NoMirrorCall]
  /\ mirrorLast = NoMirrorLast
  /\ mirrorResolved = NotChecked
  /\ InitUi

NextResolve == ResolveKernelForNotebook

SpecResolve == InitResolve /\ [][NextResolve]_vars

\* the candidates that occur in the normalized path, ignoring case
Occurring(c) ==
  {c.kernelNames[i] : i \in {j \in 1..Len(c.kernelNames) :
     includes(toLowerCase(ReplaceBackslashes(Chars(c.notebookRelPath))),
              toLowerCase(Chars(c.kernelNames[j])))}}

C14_FallbackCommonThenDefault ==
  (resolveCall.called /\ Occurring(resolveCall) = {}) =>
    resolveCall.result =
      IF ArrayIncludes(resolveCall.kernelNames, "common") THEN "common"
      ELSE IF ArrayIncludes(resolveCall.kernelNames, "default") THEN "default"
      ELSE IF resolveCall.kernelNames # << >> THEN resolveCall.kernelNames[1]
      ELSE Undefined

\* the positions in the input of the longest candidates that occur in the path
LongestOccurring(r) ==
  {i \in 1..Len(r.kernelNames) :
     /\ r.kernelNames[i] \in Occurring(r)
     /\ \A name \in Occurring(r) :
          Len(Chars(name)) <= Len(Chars(r.kernelNames[i]))}

\* C32 as stated: when several candidates of one length occur in the path and
\* no longer candidate does, the result is the one of them that comes last in
\* the input.
C32_LastOfEqualLengthWins ==
  (resolveCall.called /\ Cardinality(LongestOccurring(resolveCall)) >= 2) =>
    \E i \in LongestOccurring(resolveCall) :
      /\ resolveCall.result = resolveCall.kernelNames[i]
      /\ \A j \in LongestOccurring(resolveCall) : j <= i

\* C32 amended: the result is the one of them that comes first in the input.
C32_FirstOfEqualLengthWins ==
  (resolveCall.called /\ Cardinality(LongestOccurring(resolveCall)) >= 2) =>
    \E i \in LongestOccurring(resolveCall) :
      /\ resolveCall.result = resolveCall.kernelNames[i]
      /\ \A j \in LongestOccurring(resolveCall) : i <= j

C32_Witness ==
  /\ resolveCall.called
  /\ resolveCall.kernelNames = <<"ml", "Torch", "study">>
  /\ resolveCall.notebookRelPath = "PyTorch_Study\\nb.ipynb"
  /\ resolveCall.result = "Torch"

\* ------------------------------------------------------------------------
\* Specification and properties of the notebook updater
\* ------------------------------------------------------------------------
InitNotebooks ==
  /\ workspaceOpen \in BOOLEAN
  /\ platform = "linux"
  /\ kernelDir = [k \in KernelNames |-> TRUE]
  /\ venv = [k \in KernelNames |-> "absent"]
  /\ marker = [k \in KernelNames |-> NoMarker]
  /\ req = [p \in ReqPaths |-> "numpy\n"]
  /\ edits = 0
  /\ pc = "idle"
  /\ call = NoCall
  /\ token = FALSE
  /\ batch = NoBatch
  /\ batchOutcome = NoOutcome
  /\ last = NoLast
  /\ infoList = << >>
  /\ infoFresh = FALSE
  /\ fresh = NoFresh
  /\ shared = [n \in SpecNames |-> AbsentDir]
  /\ local = [n \in SpecNames |-> AbsentDir]
  /\ regLast = NoReg
  /\ regBatch = NoRegBatch
  /\ regOutcome = NoRegOutcome
  /\ resolveCall = NoResolve
  /\ notebooks \in [NotebookFiles -> NotebookContents]
  /\ nbLast = NoUpdate
  /\ nbBatch = NoNbBatch
  /\ nbOutcome = NoNbOutcome
  /\ pypiMirror = "auto"
  /\ cachedMirror = NotChecked
  /\ mirrorCall = [c \in Callers |-> NoMirrorCall]
  /\ mirrorLast = NoMirrorLast
  /\ mirrorResolved = NotChecked
  /\ InitUi

\* updateSingleNotebook applied directly
NextNbSingle ==
  \E p \in NotebookFiles, k \in KernelNames, dryRun \in BOOLEAN :
    UpdateSingleNotebook(p, k, dryRun)

SpecNbSingle == InitNotebooks /\ [][NextNbSingle]_vars

\* updateNotebookKernels, which applies updateSingleNotebook to every notebook
NextNotebooks ==
  \/ \E dryRun \in BOOLEAN, cancelled \in BOOLEAN : UpdateNotebookKernels(dryRun, cancelled)
  \/ UpdateNotebooksLoop
  \/ Cancel

SpecNotebooks == InitNotebooks /\ [][NextNotebooks]_vars

\* C15: updateSingleNotebook on a notebook whose metadata.kernelspec.name
\* already equals the target spec name returns updated=false and writes
\* nothing, for dryRun true and false alike and whatever display name or
\* language the notebook stores.
C15_SameNameNoWrite ==
  (/\ nbLast.called
   /\ nbLast.fileBefore.readable
   /\ nbLast.fileBefore.json.kind = "object"
   /\ nbLast.fileBefore.json.name = nbLast.kernelSpecName) =>
    /\ nbLast.kind = "result"
    /\ ~nbLast.result.updated
    /\ nbLast.result.error = ""
    /\ ~nbLast.wrote
    /\ nbLast.fileAfter = nbLast.fileBefore
    /\ ~nbLast.othersChanged

C15_Witness ==
  /\ nbLast.called
  /\ ~nbLast.dryRun
  /\ nbLast.fileBefore.readable
  /\ nbLast.fileBefore.json.kind = "object"
  /\ nbLast.fileBefore.json.name = nbLast.kernelSpecName
  /\ nbLast.fileBefore.json.display_name = "Julia"
  /\ nbLast.displayName # "Julia"
  /\ ~nbLast.result.updated

\* a complete real run without write errors, after a complete dry run that
\* started from the same files
RealAfterDry(o) ==
  /\ o.kind = "returned"
  /\ ~o.dryRun
  /\ o.observedAt = 0
  /\ ~o.writeFailed
  /\ o.dry # << >>
  /\ o.dry[1].filesAtEntry = o.filesAtEntry

SameReport(r1, r2) ==
  /\ r1.filePath = r2.filePath
  /\ r1.updated = r2.updated
  /\ r1.oldKernel = r2.oldKernel
  /\ r1.newKernel = r2.newKernel

\* C16: with dryRun=true neither updateSingleNotebook nor
\* updateNotebookKernels writes a notebook file, and each per-file result
\* reports the updated flag and the old and new kernel names that a real run
\* on the same initial files reports when its writes succeed.
C16_DryRunWritesNothingReportsTheSame ==
  /\ (nbLast.called /\ nbLast.dryRun) =>
       /\ ~nbLast.wrote
       /\ nbLast.fileAfter = nbLast.fileBefore
       /\ ~nbLast.othersChanged
  /\ (nbOutcome.kind # "none" /\ nbOutcome.dryRun) =>
       nbOutcome.filesAtReturn = nbOutcome.filesAtEntry
  /\ RealAfterDry(nbOutcome) =>
       /\ Len(nbOutcome.results) = Len(nbOutcome.dry[1].results)
       /\ \A i \in 1..Len(nbOutcome.results) :
            SameReport(nbOutcome.results[i], nbOutcome.dry[1].results[i])

C16_Witness ==
  /\ RealAfterDry(nbOutcome)
  /\ Len(nbOutcome.results) = Len(NotebookOrder)
  /\ nbOutcome.results[1].updated
  /\ ~nbOutcome.results[2].updated
  /\ nbOutcome.dry[1].results[1].updated
  /\ nbOutcome.filesAtReturn # nbOutcome.filesAtEntry

\* C17: updateNotebookKernels checks cancellation before each file: once it
\* is observed no further notebook is read or written, and the per-file
\* results returned are exactly those of the notebooks processed before that
\* point, each at most once.
C17_CancellationStopsTheScan ==
  nbOutcome.kind = "returned" =>
    LET n == Len(nbOutcome.processed)
    IN /\ ~nbOutcome.afterCancel
       /\ nbOutcome.processed = SubSeqTo(NotebookOrder, n)
       /\ nbOutcome.observedAt > 0 => n = nbOutcome.observedAt - 1
       /\ Len(nbOutcome.results) = n
       /\ \A i \in 1..n : nbOutcome.results[i].filePath = nbOutcome.processed[i]
       /\ \A i \in (n + 1)..Len(NotebookOrder) :
            nbOutcome.filesAtReturn[1][NotebookOrder[i]]
              = nbOutcome.filesAtEntry[1][NotebookOrder[i]]

C17_Witness ==
  /\ nbOutcome.kind = "returned"
  /\ ~nbOutcome.dryRun
  /\ nbOutcome.observedAt = 2
  /\ Len(nbOutcome.results) = 1
  /\ nbOutcome.results[1].updated
  /\ nbOutcome.filesAtReturn[1][NotebookOrder[1]] # nbOutcome.filesAtEntry[1][NotebookOrder[1]]
  /\ nbOutcome.filesAtEntry[1][NotebookOrder[2]].json.name = Chars("python3")

\* ------------------------------------------------------------------------
\* Specification and properties of the mirror detector
\* ------------------------------------------------------------------------
\* a session with a workspace open; the session cache starts undefined
InitMirror ==
  /\ InitSetup
  /\ workspaceOpen
  /\ \A k \in KernelNames : kernelDir[k]

NextMirror ==
  \/ \E caller \in Callers, fn \in {"getPreferredMirror", "getMirrorArgs"} :
       GetPreferredMirror(caller, fn)
  \/ \E caller \in Callers : HttpGetDone(caller)
  \/ ClearMirrorCache
  \/ \E setting \in MirrorSettings : ChangeMirrorSetting(setting)

SpecMirror == InitMirror /\ [][NextMirror]_vars

\* C18: with the setting left at "auto", a call that starts after
\* getPreferredMirror has resolved, and before any clearMirrorCache, returns
\* the value that was resolved and performs no lookup; a call that starts
\* with the cache cleared performs a lookup
C18_CachedUntilCleared ==
  (mirrorLast.kind = "resolved" /\ mirrorLast.setting = "auto" /\ ~mirrorLast.cleared) =>
    /\ mirrorLast.resolvedAtStart # NotChecked =>
         (mirrorLast.result = mirrorLast.resolvedAtStart /\ ~mirrorLast.lookedUp)
    /\ mirrorLast.cacheAtStart = NotChecked => mirrorLast.lookedUp

\* C19: with a non-empty setting other than "auto" the result is the setting
\* as url with the label "User setting", there is no lookup and the session
\* cache is as it was; getMirrorArgs returns <<"-i", url>> for it, and
\* returns the empty list exactly when the mirror is null
C19_UserSettingVerbatim ==
  /\ (mirrorLast.kind = "resolved" /\ mirrorLast.setting \notin {"", "auto"}) =>
       /\ mirrorLast.result = MirrorInfo(mirrorLast.setting, "User setting")
       /\ ~mirrorLast.lookedUp
       /\ mirrorLast.responses = << >>
       /\ mirrorLast.cacheAfter = mirrorLast.cacheAtStart
       /\ mirrorLast.fn = "getMirrorArgs" => mirrorLast.args = <<"-i", mirrorLast.setting>>
  /\ (mirrorLast.kind = "resolved" /\ mirrorLast.fn = "getMirrorArgs") =>
       /\ (mirrorLast.args = << >>) <=> (mirrorLast.result = NullMirror)
       /\ mirrorLast.result # NullMirror => mirrorLast.args = <<"-i", mirrorLast.result.url>>

\* getMirrorArgs with a custom setting while the session cache holds a
\* detected mirror
C19_Witness ==
  /\ mirrorLast.kind = "resolved"
  /\ mirrorLast.fn = "getMirrorArgs"
  /\ mirrorLast.setting = "https://pypi.example.org/simple"
  /\ mirrorLast.cacheAtStart.kind = "mirror"
  /\ mirrorLast.args = <<"-i", "https://pypi.example.org/simple">>

Letters ==
  {"a", "b", "c", "d", "e", "f", "g", "h", "i", "j", "k", "l", "m",
   "n", "o", "p", "q", "r", "s", "t", "u", "v", "w", "x", "y", "z",
   "A", "B", "C", "D", "E", "F", "G", "H", "I", "J", "K", "L", "M",
   "N", "O", "P", "Q", "R", "S", "T", "U", "V", "W", "X", "Y", "Z"}

\* the response is a two-letter country code
TwoLetterCode(response) ==
  /\ response.kind = "body"
  /\ LET trimmed == TrimChars(response.body)
     IN Len(trimmed) = 2 /\ trimmed[1] \in Letters /\ trimmed[2] \in Letters

\* C20: a lookup asks the endpoints in order and stops at the first response
\* that is a two-letter country code, moving on after an error, a timeout or
\* any other response; the result is the first rule that has the code, null
\* when no endpoint gave a code or no rule has it, and the result is cached
C20_FirstCountryCodeFirstRule ==
  (mirrorLast.kind = "resolved" /\ mirrorLast.lookedUp) =>
    LET r == mirrorLast.responses
        n == Len(r)
    IN /\ n \in 1..Len(GEOIP_ENDPOINTS)
       /\ \A i \in 1..(n - 1) : ~TwoLetterCode(r[i])
       /\ TwoLetterCode(r[n]) \/ n = Len(GEOIP_ENDPOINTS)
       /\ mirrorLast.result =
            (IF TwoLetterCode(r[n])
             THEN resolveMirrorForCountry(toUpperCase(TrimChars(r[n].body)))
             ELSE NullMirror)
       /\ mirrorLast.cleared \/ mirrorLast.cacheAfter = mirrorLast.result

\* ------------------------------------------------------------------------
\* Specification and properties of the config loader
\* ------------------------------------------------------------------------
\* every variable of the provisioning engine, the registrar, the notebook
\* updater and the mirror detector at rest
InitQuiet ==
  /\ platform = "linux"
  /\ kernelDir = [k \in KernelNames |-> TRUE]
  /\ venv = [k \in KernelNames |-> "absent"]
  /\ marker = [k \in KernelNames |-> NoMarker]
  /\ edits = 0
  /\ pc = "idle"
  /\ call = NoCall
  /\ token = FALSE
  /\ batch = NoBatch
  /\ batchOutcome = NoOutcome
  /\ last = NoLast
  /\ infoList = << >>
  /\ infoFresh = FALSE
  /\ fresh = NoFresh
  /\ shared = [n \in SpecNames |-> AbsentDir]
  /\ local = [n \in SpecNames |-> AbsentDir]
  /\ regLast = NoReg
  /\ regBatch = NoRegBatch
  /\ regOutcome = NoRegOutcome
  /\ resolveCall = NoResolve
  /\ notebooks = [p \in NotebookFiles |-> NoNotebook]
  /\ nbLast = NoUpdate
  /\ nbBatch = NoNbBatch
  /\ nbOutcome = NoNbOutcome
  /\ pypiMirror = "auto"
  /\ cachedMirror = NotChecked
  /\ mirrorCall = [c \in Callers |-> NoMirrorCall]
  /\ mirrorLast = NoMirrorLast
  /\ mirrorResolved = NotChecked

\* a workspace, open or not, with any kernels.json
InitConfig ==
  /\ InitQuiet
  /\ workspaceOpen \in BOOLEAN
  /\ req = [p \in ReqPaths |-> "numpy\n"]
  /\ configFile \in ConfigFiles
  /\ validateCall = NoValidate
  /\ loadLast = NoLoad
  /\ reqPathCall = NoReqPath
  /\ hashCall = NoHash
  /\ activeNotebook = NoEditor
  /\ sbItem = StatusBarItem(FALSE, <<"", "">>)
  /\ sbUpdates = [u \in UpdateIds |-> NoUpdateCall]
  /\ cmd = NoCmd
  /\ tree = NoTree

NextConfig ==
  \/ ValidateConfig
  \/ LoadKernelsConfig

SpecConfig == InitConfig /\ [][NextConfig]_vars

\* the documented rules, on JSON values: an object is a JSON object
IsObject(v) == v.t = "object"
NonEmptyString(v) == v.t = "string" /\ v.s # ""
Present(v) == v.t # "undefined"

VariantSatisfiesRules(variant) ==
  /\ IsObject(variant)
  /\ NonEmptyString(Get(variant, "requirements_file"))

KernelSatisfiesRules(kernel) ==
  /\ IsObject(kernel)
  /\ NonEmptyString(Get(kernel, "display_name"))
  /\ \A field \in {"description", "requirements_file", "python_version"} :
       Present(Get(kernel, field)) => Get(kernel, field).t = "string"
  /\ Present(Get(kernel, "env")) => IsObject(Get(kernel, "env"))
  /\ Present(Get(kernel, "variants")) =>
       /\ IsObject(Get(kernel, "variants"))
       /\ \A i \in 1..Len(Get(kernel, "variants").entries) :
            VariantSatisfiesRules(Get(kernel, "variants").entries[i][2])

SatisfiesRules(obj) ==
  /\ IsObject(obj)
  /\ IsObject(Get(obj, "kernels"))
  /\ \A i \in 1..Len(Get(obj, "kernels").entries) :
       KernelSatisfiesRules(Get(obj, "kernels").entries[i][2])

\* C21: validateConfig returns null exactly for the inputs that satisfy
\* rules 1-5, and a message for every other input.
C21_NullIffRulesHold ==
  validateCall.called =>
    ((validateCall.result = NoMessage) <=> SatisfiesRules(validateCall.obj))

\* the violations of rules 1 to 5, each rule over the kernels in their order
Rule1(obj) ==
  IF ~IsObject(obj) THEN ConfigMustBeObject
  ELSE IF ~IsObject(Get(obj, "kernels")) THEN ConfigNeedsKernels
  ELSE NoMessage

Rule2(name, kernel) ==
  IF ~IsObject(kernel) THEN KernelMustBeObject(name)
  ELSE IF ~NonEmptyString(Get(kernel, "display_name")) THEN KernelNeedsDisplayName(name)
  ELSE NoMessage

Rule3(name, kernel) ==
  LET wrong(field) == Present(Get(kernel, field)) /\ Get(kernel, field).t # "string"
  IN IF wrong("description") THEN FieldMustBeString(name, "description")
     ELSE IF wrong("requirements_file") THEN FieldMustBeString(name, "requirements_file")
     ELSE IF wrong("python_version") THEN FieldMustBeString(name, "python_version")
     ELSE NoMessage

Rule4(name, kernel) ==
  IF Present(Get(kernel, "env")) /\ ~IsObject(Get(kernel, "env"))
  THEN FieldMustBeObject(name, "env")
  ELSE NoMessage

Rule5(name, kernel) ==
  LET variants == Get(kernel, "variants")
      bad == {i \in 1..Len(variants.entries) : ~VariantSatisfiesRules(variants.entries[i][2])}
  IN IF ~Present(variants) THEN NoMessage
     ELSE IF ~IsObject(variants) THEN FieldMustBeObject(name, "variants")
     ELSE IF bad = {} THEN NoMessage
     ELSE LET i == CHOOSE j \in bad : \A h \in bad : j <= h
              variantName == variants.entries[i][1]
          IN IF ~IsObject(variants.entries[i][2])
             THEN VariantMustBeObject(name, variantName)
             ELSE VariantNeedsRequirementsFile(name, variantName)

\* the first message in a list of messages
RECURSIVE FirstMessage(_)
FirstMessage(messages) ==
  IF messages = << >> THEN NoMessage
  ELSE IF messages[1] # NoMessage THEN messages[1]
  ELSE FirstMessage(Tail(messages))

FirstViolation(obj) ==
  LET entries == Get(obj, "kernels").entries
  IN FirstMessage(
       <<Rule1(obj),
         FirstMessage([i \in 1..Len(entries) |-> Rule2(entries[i][1], entries[i][2])]),
         FirstMessage([i \in 1..Len(entries) |-> Rule3(entries[i][1], entries[i][2])]),
         FirstMessage([i \in 1..Len(entries) |-> Rule4(entries[i][1], entries[i][2])]),
         FirstMessage([i \in 1..Len(entries) |-> Rule5(entries[i][1], entries[i][2])])>>)

\* C22: for a config that breaks the rules validateConfig returns the message
\* of the first violation in the documented order (top-level shape, then
\* display_name, then description / requirements_file / python_version, then
\* env, then variants), naming the kernel and the field.
C22_FirstViolationInRuleOrder ==
  (validateCall.called /\ ~SatisfiesRules(validateCall.obj)) =>
    validateCall.result = FirstViolation(validateCall.obj)

InitPaths ==
  /\ InitQuiet
  /\ workspaceOpen \in BOOLEAN
  /\ req \in [ReqPaths -> Contents \cup {NoFile}]
  /\ \A p \in ReqPaths : p[1] \notin SetupTargets => req[p] = "numpy\n"
  /\ configFile = ConfigFile("missing", JUndefined)
  /\ validateCall = NoValidate
  /\ loadLast = NoLoad
  /\ reqPathCall \in {[NoReqPath EXCEPT !.kernelName = k, !.definition = d, !.variant = v] :
                        k \in KernelNames, d \in Definitions, v \in VariantNames}
  /\ hashCall = NoHash
  /\ activeNotebook = NoEditor
  /\ sbItem = StatusBarItem(FALSE, <<"", "">>)
  /\ sbUpdates = [u \in UpdateIds |-> NoUpdateCall]
  /\ cmd = NoCmd
  /\ tree = NoTree

NextPaths ==
  \/ GetRequirementsPath
  \/ \E p \in {q \in ReqPaths : q[1] \in SetupTargets} : ComputeFileHash(p)

SpecPaths == InitPaths /\ [][NextPaths]_vars

\* C24: the specifier is the variant's requirements_file exactly when a
\* variant is given and the definition defines it; otherwise it is the base
\* requirements_file (requirements.txt by default) and nothing is raised.
C24_VariantFileIffDefined ==
  (reqPathCall.called /\ workspaceOpen) =>
    LET d == reqPathCall.definition
        v == reqPathCall.variant
    IN reqPathCall.result =
         <<reqPathCall.kernelName,
           IF v # NoVariant /\ v \in DOMAIN d.variants
           THEN d.variants[v].requirements_file
           ELSE IF d.requirements_file = Undefined THEN "requirements.txt"
           ELSE d.requirements_file>>

\* C28: computeFileHash of a file that does not exist is the empty string;
\* nothing is raised.
C28_MissingFileHashesToEmpty ==
  (hashCall.called /\ hashCall.content = NoFile) => hashCall.result = ""

\* ------------------------------------------------------------------------
\* Specification and properties of the status bar
\* ------------------------------------------------------------------------
InitStatusBar ==
  /\ InitQuiet
  /\ workspaceOpen \in BOOLEAN
  /\ req = [p \in ReqPaths |-> "numpy\n"]
  /\ configFile \in {ConfigFile("missing", JUndefined), ConfigFile("malformed", JUndefined),
                     LoadableConfig}
  /\ validateCall = NoValidate
  /\ loadLast = NoLoad
  /\ reqPathCall = NoReqPath
  /\ hashCall = NoHash
  /\ activeNotebook = NoEditor
  /\ sbItem = StatusBarItem(FALSE, <<"", "">>)
  /\ sbUpdates = [u \in UpdateIds |-> NoUpdateCall]
  /\ cmd = NoCmd
  /\ tree = NoTree

NextStatusBar ==
  \/ \E editor \in NotebookEditors \cup {NoEditor} : ChangeActiveNotebookEditor(editor)
  \/ ChangeActiveTextEditor
  \/ \E u \in UpdateIds : UpdateConfigLoaded(u)
  \/ \E u \in UpdateIds : UpdateKernelsListed(u)

SpecStatusBar == InitStatusBar /\ [][NextStatusBar]_vars

\* C27: when no notebook editor is active and no update() call is pending,
\* the status bar item is hidden.
C27_HiddenWithoutNotebook ==
  (activeNotebook = NoEditor /\ \A u \in UpdateIds : sbUpdates[u].pc = "idle")
    => ~sbItem.visible

\* ------------------------------------------------------------------------
\* Specification and properties of registration as the tree view shows it
\* ------------------------------------------------------------------------
\* the (kernel, variant) pairs of the variant registrations
VariantTargets == {<<"common", NoVariant>>, <<"pytorch_study", "gpu">>,
                   <<"pytorch_study", "cpu">>}

NextRegister ==
  \/ \E t \in VariantTargets : RegisterKernel(t[1], t[2])
  \/ \E t \in VariantTargets : UnregisterKernel(t[1], t[2])

SpecRegister == InitReg /\ [][NextRegister]_vars

\* C25: after a successful registerKernel the directory
\* {prefix}-{name}[-{variant}] of the shared root holds a kernel.json with
\* argv = [interpreter of the environment, -m, ipykernel_launcher, -f,
\* {connection_file}], language python, the variant's display name when the
\* variant defines one and the kernel's otherwise, and env exactly when the
\* definition's env is not empty; isKernelRegistered is then true.
C25_RegisteredSpecContent ==
  (regLast.op = "register" /\ regLast.success) =>
    LET k == regLast.kernelName
        v == regLast.variant
        definition == KernelsConfig[k]
        dirName == IF v = NoVariant THEN Chars("py-learn-" \o k)
                   ELSE Chars("py-learn-" \o k \o "-" \o v)
        entry == shared[dirName]
        interpreter == <<k, ".venv",
                         IF platform = "win32" THEN "Scripts/python.exe" ELSE "bin/python">>
        variantName == IF v # NoVariant /\ v \in DOMAIN definition.variants
                       THEN definition.variants[v].display_name
                       ELSE Undefined
    IN /\ entry.dir
       /\ entry.json # NoJson
       /\ entry.json[1].argv =
            <<interpreter, "-m", "ipykernel_launcher", "-f", "{connection_file}">>
       /\ entry.json[1].language = "python"
       /\ entry.json[1].display_name =
            (IF variantName # Undefined THEN variantName ELSE definition.display_name)
       /\ ("env" \in DOMAIN entry.json[1]) <=> (DOMAIN definition.env # {})
       /\ "env" \in DOMAIN entry.json[1] => entry.json[1].env = definition.env
       /\ isKernelRegistered(k, v)

\* a variant without a display name of its own, on a kernel with env
C25_Witness ==
  /\ regLast.op = "register"
  /\ regLast.success
  /\ regLast.kernelName = "pytorch_study"
  /\ regLast.variant = "cpu"
  /\ shared[Chars("py-learn-pytorch_study-cpu")].json[1].display_name = "PyTorch Study"
  /\ "env" \in DOMAIN shared[Chars("py-learn-pytorch_study-cpu")].json[1]

NextTree ==
  \/ \E t \in RegTargets : RegisterKernel(t[1], t[2])
  \/ \E t \in RegTargets : UnregisterKernel(t[1], t[2])
  \/ GetKernelInfoList

SpecTree == InitReg /\ [][NextTree]_vars

\* C26: after a refresh every kernel of the list is labelled "Registered"
\* exactly when its registration spec exists.
C26_RegisteredLabelAfterRefresh ==
  [][infoList' # infoList =>
       \A i \in 1..Len(infoList') :
         (regLabel(infoList'[i]) = "Registered")
           <=> isKernelRegistered(infoList'[i].name, NoVariant)]_vars

\* ------------------------------------------------------------------------
\* Properties of setupKernel
\* ------------------------------------------------------------------------
\* the last setupKernel repeated, without force, the successful invocation
\* before it, and the specifier was not edited after that one returned
RepeatedUnchangedAfter ==
  /\ last.kind # "none"
  /\ last.prevSame
  /\ ~last.force
  /\ ~last.editedSincePrev
  /\ ~last.editedDuring

ShortCircuited ==
  /\ last.kind = "result"
  /\ last.success
  /\ last.message = "Already up to date"
  /\ last.launched = << >>
  /\ last.venvAfter = last.venvBefore
  /\ last.markerAfter = last.markerBefore

\* C1 as stated: after a successful setupKernel(force = false), with the
\* specifier and the environment unchanged since it returned, the same call
\* again returns 'Already up to date', launches no process and mutates nothing.
C1_SecondCallShortCircuits == RepeatedUnchangedAfter => ShortCircuited

\* C1 amended: the same, provided the specifier was not edited while the
\* first call ran either (unchanged from the start of the first call on).
C1_SecondCallShortCircuitsIfUnchangedThroughout ==
  (RepeatedUnchangedAfter /\ last.prevClean) => ShortCircuited

C1_Witness ==
  /\ RepeatedUnchangedAfter
  /\ last.prevClean
  /\ ShortCircuited
  /\ last.markerBefore.exists

FailedCreateOrInstall ==
  /\ last.kind = "result"
  /\ ~last.success
  /\ last.message \in {"Failed to create virtual environment",
                       "Failed to install packages"}

\* C2: a setupKernel that fails in environment creation or in the install
\* has not written the marker: the marker is absent or what it was before
\* the call; the environment the install failed in is left in place.
C2_FailureWritesNoMarker ==
  FailedCreateOrInstall =>
    /\ ~last.wroteMarker
    /\ last.markerAfter = NoMarker \/ last.markerAfter = last.markerBefore
    /\ last.message = "Failed to install packages" => last.venvAfter = "valid"

C2_Witness ==
  /\ FailedCreateOrInstall
  /\ last.message = "Failed to install packages"
  /\ last.markerBefore.exists
  /\ last.markerAfter = last.markerBefore
  /\ marker[last.kernelName] = last.markerBefore

\* the last setupKernel succeeded, ran the installer and wrote the marker,
\* and nothing was edited or started since it returned
InstalledAndIdle ==
  /\ pc = "idle"
  /\ last.kind = "result"
  /\ last.success
  /\ last.wroteMarker
  /\ Launched(last, "pipInstall")
  /\ ~last.editedAfter

ModifiedDuringRun ==
  /\ last.editedDuring
  /\ req[last.requirementsPath] \notin {NoFile, last.snapContent}

MarkerIsSnapshot ==
  marker[last.kernelName] =
    [exists |-> TRUE, text |-> <<MD5[last.snapContent]>>]

\* C3 as stated: the marker a successful installing run writes is the digest
\* of the specifier as read before the install, and when the specifier was
\* modified during the run a following status query reports NeedsUpdate.
C3_MarkerIsPreInstallSnapshot ==
  InstalledAndIdle =>
    /\ MarkerIsSnapshot
    /\ ModifiedDuringRun => KernelStatus(last.kernelName) = "needsUpdate"

\* C3 amended: the marker is the pre-install digest for every such run; the
\* status query reports NeedsUpdate when the run used the kernel's base
\* specifier (the status query never looks at a variant's specifier).
C3_MarkerIsPreInstallSnapshotBaseStatus ==
  InstalledAndIdle =>
    /\ MarkerIsSnapshot
    /\ (ModifiedDuringRun /\ last.requirementsPath = BasePath(last.kernelName))
         => KernelStatus(last.kernelName) = "needsUpdate"

C3_Witness ==
  /\ InstalledAndIdle
  /\ ModifiedDuringRun
  /\ last.requirementsPath = BasePath(last.kernelName)
  /\ MarkerIsSnapshot
  /\ KernelStatus(last.kernelName) = "needsUpdate"

\* C8: setupKernel always completes with a SetupResult and never raises,
\* also when a process cannot be launched or the marker cannot be written.
C8_SetupKernelNeverRaises == last.kind # "raised"

\* the stages of a running setupKernel
SetupStages == {"createVenv", "snapshot", "install", "pipUpgrade", "pipInstall"}

\* C12: once cancellation has been requested, no later stage of the running
\* setupKernel launches an external process: after a cancel during the
\* environment creation no pip upgrade or install is started, and after a
\* cancel during the pip upgrade the install is not started.
C12_NoLaunchAfterCancel ==
  [][(token /\ pc \in SetupStages) => Len(call'.launched) <= Len(call.launched)]_vars

\* ------------------------------------------------------------------------
\* Properties of setupAllKernels
\* ------------------------------------------------------------------------
ResultNames(results) == [i \in 1..Len(results) |-> results[i].kernelName]

\* C9: with no cancellation requested, setupAllKernels returns exactly one
\* result per configured kernel, in config order, and setupKernel is invoked
\* on every kernel whatever happened to the kernels before it.
C9_OneResultPerKernel ==
  (batchOutcome.kind # "none" /\ ~batchOutcome.cancelled) =>
    /\ batchOutcome.kind = "returned"
    /\ ResultNames(batchOutcome.results) = KernelOrder
    /\ batchOutcome.attempted = KernelOrder

\* C10 as stated: the returned list has exactly one entry per kernel on
\* which setupKernel was invoked and none for a kernel that was not
\* attempted, also when cancellation stops the batch early.
C10_ResultsAreAttempted ==
  batchOutcome.kind = "returned" =>
    ResultNames(batchOutcome.results) = batchOutcome.attempted

CancelledEntry(name) == SetupResult(FALSE, name, "Cancelled")

\* C10 amended: the returned list holds one entry per attempted kernel, in
\* order, followed - only when cancellation stopped the batch - by a single
\* 'Cancelled' failure entry for the first kernel that was not attempted.
C10_ResultsAreAttemptedPlusCancelled ==
  batchOutcome.kind = "returned" =>
    LET results == batchOutcome.results
        n == Len(batchOutcome.attempted)
    IN /\ batchOutcome.attempted = SubSeq(KernelOrder, 1, n)
       /\ \/ ResultNames(results) = batchOutcome.attempted
          \/ /\ batchOutcome.cancelled
             /\ n < Len(KernelOrder)
             /\ Len(results) = n + 1
             /\ SubSeq(ResultNames(results), 1, n) = batchOutcome.attempted
             /\ results[n + 1] = CancelledEntry(KernelOrder[n + 1])

C10_Witness ==
  /\ batchOutcome.kind = "returned"
  /\ batchOutcome.cancelled
  /\ batchOutcome.attempted = <<KernelOrder[1]>>
  /\ Len(batchOutcome.results) = 2
  /\ batchOutcome.results[2] = CancelledEntry(KernelOrder[2])

\* the last setupKernel got past the workspace and kernel-directory checks
PastChecks ==
  /\ last.kind # "none"
  /\ last.message \notin {"No workspace folder open", "Kernel directory not found"}

\* recreation is called for: force, or no valid interpreter in the tree
RecreationRequired == last.force \/ last.venvBefore # "valid"

\* C29: setupKernel removes the old tree and runs `python -m venv` exactly
\* when force is set or the environment has no valid interpreter; with force
\* it never answers 'Already up to date'; without force a valid, stale
\* environment keeps its tree and the installer is run in it.
C29_RecreatesIffForcedOrInvalid ==
  PastChecks =>
    /\ RecreationRequired =>
         /\ Launched(last, "venv")
         /\ last.venvBefore # "absent" => last.removed
    /\ ~RecreationRequired =>
         /\ ~Launched(last, "venv")
         /\ ~last.removed
    /\ last.force => last.message # "Already up to date"
    /\ (~RecreationRequired /\ last.message # "Already up to date" /\ ~last.editedDuring) =>
         /\ Launched(last, "pipUpgrade")
         /\ last.kind = "result" => Launched(last, "pipInstall")
         /\ last.venvAfter = "valid"

\* the last setupKernel returned after the early checks, its specifier file
\* did not exist and has not been created since, and nothing is running
MissingSpecifierRun ==
  /\ pc = "idle"
  /\ last.kind = "result"
  /\ PastChecks
  /\ last.message # "Failed to create virtual environment"
  /\ req[last.requirementsPath] = NoFile
  /\ ~last.editedDuring
  /\ ~last.editedAfter

NothingInstalled ==
  /\ last.success
  /\ ~Launched(last, "pipUpgrade")
  /\ ~Launched(last, "pipInstall")
  /\ ~last.wroteMarker

\* C30 as stated: with the specifier file missing, setupKernel launches
\* neither the pip upgrade nor the install, returns success and writes no
\* marker, and a following status query reports the kernel as Ready.
C30_MissingSpecifierNothingToInstall ==
  MissingSpecifierRun =>
    /\ NothingInstalled
    /\ KernelStatus(last.kernelName) = "ready"

\* C30 amended: the same, the status being Ready when the run used the
\* kernel's base specifier (the status query never looks at a variant's
\* specifier).
C30_MissingSpecifierNothingToInstallBaseStatus ==
  MissingSpecifierRun =>
    /\ NothingInstalled
    /\ last.requirementsPath = BasePath(last.kernelName)
         => KernelStatus(last.kernelName) = "ready"

\* the environment was created for a kernel whose base specifier is missing
C30_Witness ==
  /\ MissingSpecifierRun
  /\ last.requirementsPath = BasePath(last.kernelName)
  /\ Launched(last, "venv")
  /\ NothingInstalled
  /\ marker[last.kernelName] = NoMarker
  /\ KernelStatus(last.kernelName) = "ready"

InitCommand ==
  /\ InitQuiet
  /\ workspaceOpen = TRUE
  /\ req = [p \in ReqPaths |-> "numpy\n"]
  /\ configFile = LoadableConfig
  /\ validateCall = NoValidate
  /\ loadLast = NoLoad
  /\ reqPathCall = NoReqPath
  /\ hashCall = NoHash
  /\ activeNotebook = NoEditor
  /\ sbItem = StatusBarItem(FALSE, <<"", "">>)
  /\ sbUpdates = [u \in UpdateIds |-> NoUpdateCall]
  /\ cmd = NoCmd
  /\ tree = NoTree

NextCommand ==
  \/ \E autoRegister \in BOOLEAN : SetupAllKernelsCommand(autoRegister)
  \/ CommandSetupLoop
  \/ CommandRegisterLoop
  \/ CreateVenvDone
  \/ SnapshotHash
  \/ InstallRequirementsBegin
  \/ PipUpgradeDone
  \/ PipInstallDone
  \/ Cancel

SpecCommand == InitCommand /\ [][NextCommand]_vars

\* C33: with autoRegister on, a completed run of the Setup All Kernels
\* command, cancelled or not, has called registerKernel for exactly the
\* kernels whose setupKernel returned success in that run.
C33_RegistersEverySuccessfulSetup ==
  (cmd.phase = "done" /\ cmd.autoRegister) =>
    cmd.registered = SuccessfulKernels(cmd.results)

\* the last setupKernel was called without variant and returned success, and
\* no file was changed and no command started since it returned
SucceededWithoutVariant ==
  /\ pc = "idle"
  /\ last.kind = "result"
  /\ last.success
  /\ last.variant = NoVariant
  /\ ~last.editedAfter

ValidAndMarkerIsBaseDigest ==
  LET content == req[BasePath(last.kernelName)]
  IN /\ isVenvValid(venv[last.kernelName])
     /\ \/ content = NoFile
        \/ marker[last.kernelName] = [exists |-> TRUE, text |-> <<MD5[content]>>]
     /\ KernelStatus(last.kernelName) = "ready"

\* C34 as stated: after setupKernel without variant returned success, with
\* no external change of the files afterwards, the kernel has a valid
\* interpreter and a marker equal to the digest of the base specifier (or no
\* specifier file), and the status query reports Ready.
C34_SuccessfulSetupIsReady == SucceededWithoutVariant => ValidAndMarkerIsBaseDigest

\* C34 amended: the same, provided the specifier was not changed while the
\* call ran either.
C34_SuccessfulSetupIsReadyIfUnchangedThroughout ==
  (SucceededWithoutVariant /\ ~last.editedDuring) => ValidAndMarkerIsBaseDigest

C34_Witness ==
  /\ SucceededWithoutVariant
  /\ ~last.editedDuring
  /\ last.message = "Setup complete"
  /\ last.wroteMarker
  /\ last.markerBefore.exists
  /\ last.markerBefore # marker[last.kernelName]
  /\ ValidAndMarkerIsBaseDigest

\* ------------------------------------------------------------------------
\* Specification and properties of setupKernel over the variants of a kernel
\* ------------------------------------------------------------------------
\* the variants kernels.json defines for a kernel
VariantsOf(kernelName) == DOMAIN KernelsConfig[kernelName].variants

VariantPaths ==
  UNION {{getRequirementsPath(k, KernelsConfig[k], v) : v \in VariantsOf(k)} :
           k \in SetupTargets}

\* the specifier of every variant exists, with any content
InitVariants ==
  /\ InitQuiet
  /\ workspaceOpen = TRUE
  /\ req \in [ReqPaths \cup VariantPaths -> Contents]
  /\ \A p \in ReqPaths \ VariantPaths : req[p] = "numpy\n"
  /\ InitUi

\* the Setup Kernel command run on the variants in any order, with the
\* variants' specifier files edited at any point
NextVariants ==
  \/ \E k \in SetupTargets, force \in BOOLEAN :
       \E variant \in VariantsOf(k) : SetupKernel(k, force, variant)
  \/ CreateVenvDone
  \/ SnapshotHash
  \/ InstallRequirementsBegin
  \/ PipUpgradeDone
  \/ PipInstallDone
  \/ \E p \in VariantPaths, c \in Contents \cup {NoFile} : EditRequirements(p, c)

SpecVariants == InitVariants /\ [][NextVariants]_vars

\* the last completed call was a non-forced setupKernel for a variant A that
\* followed a successful setupKernel for another variant B, itself following
\* a successful setupKernel for A; the two specifiers differed in content
\* when the last call began, and B's was not changed since B's call began
VariantAfterOtherVariant ==
  /\ last.kind # "none"
  /\ ~last.force
  /\ last.prevOther
  /\ last.prevChain
  /\ last.prevClean
  /\ ~last.editedSincePrev
  /\ last.prevOtherContent # NoFile
  /\ last.beginContent \notin {NoFile, last.prevOtherContent}

\* C35: the variants of a kernel share one environment and one marker: after
\* a successful setupKernel for variant A and then a successful one for
\* variant B with a different specifier content, the marker holds the digest
\* of B's specifier, and a further non-forced setupKernel for A does not
\* return 'Already up to date' but goes on to the installer (which it
\* launches unless A's specifier was changed meanwhile).
C35_VariantsShareMarker ==
  VariantAfterOtherVariant =>
    /\ last.markerBefore =
         [exists |-> TRUE, text |-> <<MD5[last.prevOtherContent]>>]
    /\ last.venvBefore = "valid"
    /\ last.message # "Already up to date"
    /\ ~last.editedDuring => Launched(last, "pipUpgrade")
    /\ (~last.editedDuring /\ last.upgradeExit # "spawnError")
         => Launched(last, "pipInstall")

C35_Witness ==
  /\ VariantAfterOtherVariant
  /\ last.variant = "gpu"
  /\ last.message = "Setup complete"
  /\ Launched(last, "pipInstall")
  /\ marker[last.kernelName] =
       [exists |-> TRUE, text |-> <<MD5[last.beginContent]>>]
  /\ marker[last.kernelName] # last.markerBefore

\* ------------------------------------------------------------------------
\* Specification and properties of provisioning and registration together
\* ------------------------------------------------------------------------
\* a Windows workspace, where a registration also writes the project-local
\* spec
InitFrame ==
  /\ InitReg
  /\ workspaceOpen = TRUE
  /\ platform = "win32"
  /\ venv = [k \in KernelNames |-> "absent"]

\* the specs registered and unregistered one at a time
FrameTargets == {t \in RegTargets : t[1] \in SetupTargets /\ t[2] = NoVariant}

\* an environment is set up, with and without force, and specs are
\* registered, singly and all at once, and unregistered, in any order
NextFrame ==
  \/ \E k \in SetupTargets, force \in BOOLEAN : SetupKernel(k, force, NoVariant)
  \/ CreateVenvDone
  \/ SnapshotHash
  \/ InstallRequirementsBegin
  \/ PipUpgradeDone
  \/ PipInstallDone
  \/ \E t \in FrameTargets : RegisterKernel(t[1], t[2])
  \/ \E t \in FrameTargets : UnregisterKernel(t[1], t[2])
  \/ RegisterAllKernels(KernelOrder, FALSE)
  \/ RegisterAllLoop

SpecFrame == InitFrame /\ [][NextFrame]_vars

SetupPositions ==
  {"batchLoop", "createVenv", "snapshot", "install", "pipUpgrade", "pipInstall"}

\* a step of setupKernel, on its own or inside setupAllKernels
SetupStep == pc \in SetupPositions \/ pc' \in SetupPositions \/ last' # last

\* a step of registerKernel, registerAllKernels or unregisterKernel
RegistrarStep == pc = "regLoop" \/ pc' = "regLoop" \/ regLast' # regLast

\* C36: no step of setupKernel or setupAllKernels creates, modifies or
\* deletes a registration spec (shared or project-local), and no step of
\* registerKernel, registerAllKernels or unregisterKernel creates, modifies
\* or deletes an environment tree or a hash marker.
C36_ProvisioningAndRegistrationDisjoint ==
  [][/\ SetupStep => UNCHANGED <<shared, local>>
     /\ RegistrarStep => UNCHANGED <<venv, marker>>]_vars

\* a spec, shared and project-local, is still registered after the forced
\* recreation of its environment removed the tree and failed
C36_Witness ==
  /\ pc = "idle"
  /\ last.force
  /\ last.removed
  /\ last.message = "Failed to create virtual environment"
  /\ venv[last.kernelName] = "absent"
  /\ marker[last.kernelName] = NoMarker
  /\ last.markerBefore.exists
  /\ isKernelRegistered(last.kernelName, NoVariant)
  /\ local[getKernelSpecName(last.kernelName, NoVariant)].json # NoJson

\* ------------------------------------------------------------------------
\* Specification and properties of the spec names of a config with hyphens
\* ------------------------------------------------------------------------
\* the environments of the kernels "a-b" and "a" are set up, nothing is
\* registered
InitNaming ==
  /\ workspaceOpen = TRUE
  /\ platform \in {"linux", "win32"}
  /\ kernelDir = [k \in KernelNames |-> TRUE]
  /\ venv = [k \in KernelNames \cup HyphenNames |->
             IF k \in HyphenNames THEN "valid" ELSE "absent"]
  /\ marker = [k \in KernelNames |-> NoMarker]
  /\ req = [p \in ReqPaths |-> "numpy\n"]
  /\ edits = 0
  /\ pc = "idle"
  /\ call = NoCall
  /\ token = FALSE
  /\ batch = NoBatch
  /\ batchOutcome = NoOutcome
  /\ last = NoLast
  /\ infoList = << >>
  /\ infoFresh = FALSE
  /\ fresh = NoFresh
  /\ shared = [n \in SpecNames \cup HyphenSpecNames |-> AbsentDir]
  /\ local = [n \in SpecNames \cup HyphenSpecNames |-> AbsentDir]
  /\ regLast = NoReg
  /\ regBatch = NoRegBatch
  /\ regOutcome = NoRegOutcome
  /\ resolveCall = NoResolve
  /\ notebooks = [p \in NotebookFiles |-> NoNotebook]
  /\ nbLast = NoUpdate
  /\ nbBatch = NoNbBatch
  /\ nbOutcome = NoNbOutcome
  /\ pypiMirror = "auto"
  /\ cachedMirror = NotChecked
  /\ mirrorCall = [c \in Callers |-> NoMirrorCall]
  /\ mirrorLast = NoMirrorLast
  /\ mirrorResolved = NotChecked
  /\ InitUi

NextNaming ==
  \/ \E t \in HyphenTargets : RegisterKernel(t[1], t[2])
  \/ \E t \in HyphenTargets : UnregisterKernel(t[1], t[2])

SpecNaming == InitNaming /\ [][NextNaming]_vars

\* the pair the last registerKernel / unregisterKernel was invoked with
RegPair(r) == <<r.kernelName, r.variant>>

\* C37: distinct (kernel name, variant) pairs of one config have distinct
\* spec names, and a registerKernel or unregisterKernel of one pair leaves
\* the spec directory of every other pair as it was.
C37_DistinctPairsDistinctSpecs ==
  /\ [](\A s, t \in HyphenTargets :
          s # t => getKernelSpecName(s[1], s[2]) # getKernelSpecName(t[1], t[2]))
  /\ [][regLast' # regLast =>
          \A t \in HyphenTargets \ {RegPair(regLast')} :
            shared'[getKernelSpecName(t[1], t[2])]
              = shared[getKernelSpecName(t[1], t[2])]]_vars

\* ------------------------------------------------------------------------
\* Specification and properties of the tree view
\* ------------------------------------------------------------------------
\* activate() has created the provider and called refresh() (extension.ts
\* line 46); the view is not shown yet
InitTreeView ==
  /\ InitQuiet
  /\ workspaceOpen = TRUE
  /\ req = [p \in ReqPaths |-> "numpy\n"]
  /\ configFile \in TreeConfigs
  /\ validateCall = NoValidate
  /\ loadLast = NoLoad
  /\ reqPathCall = NoReqPath
  /\ hashCall = NoHash
  /\ activeNotebook = NoEditor
  /\ sbItem = StatusBarItem(FALSE, <<"", "">>)
  /\ sbUpdates = [u \in UpdateIds |-> NoUpdateCall]
  /\ cmd = NoCmd
  /\ tree = RefreshBegin(NoTree, 1)

\* what the provider does by itself
TreeViewStep ==
  \/ \E r \in RefreshIds : GetChildren(r)
  \/ \E r \in RefreshIds : RefreshConfigLoaded(r)
  \/ \E r \in RefreshIds : RefreshKernelsListed(r)

\* the outside triggers: the view is shown, kernels.json changes, the
\* Refresh command is run
NextTreeView ==
  \/ ShowView
  \/ \E file \in TreeConfigs, r \in RefreshIds : ChangeConfig(file, r)
  \/ \E r \in RefreshIds : RefreshCommand(r)
  \/ TreeViewStep

SpecTreeView == InitTreeView /\ [][NextTreeView]_vars

\* the event loop runs every pending callback; the outside triggers are
\* free to happen or not
SpecTreeViewLive == SpecTreeView /\ WF_vars(TreeViewStep)

AllRefreshesIdle == \A r \in RefreshIds : tree.refreshes[r].pc = "idle"

\* C39: the tree view reaches quiescence: whatever the config is, from some
\* point on no refresh() is running and no getChildren call is pending
\* unless a new outside trigger arrives (there are finitely many of them).
C39_TreeViewQuiesces == <>[](AllRefreshesIdle /\ ~tree.pendingGetChildren)

\* what refresh() assigns for the result of its loadKernelsConfig
AssignedFor(result) ==
  [kernelInfos |-> IF result.config # JNull
                   THEN KernelInfoNames(result.config) ELSE << >>,
   configError |-> IF result.config # JNull THEN NoMessage ELSE result.error]

\* C40: once every refresh() has completed, the kernel list and the error
\* message of the tree are those of the config read by the refresh() that
\* started last.
C40_LastStartedRefreshWins ==
  (AllRefreshesIdle /\ tree.lastStarted # 0) =>
    [kernelInfos |-> tree.kernelInfos, configError |-> tree.configError]
      = AssignedFor(tree.refreshes[tree.lastStarted].result)

====
